---------------------------- MODULE Spec2Model ----------------------------
(***************************************************************************)
(* data-gemini-visualizer: the request chain of                            *)
(* analyzeAndCleanDataWithGemini (clean, analyze, chart data, summary,     *)
(* reports), the DataAnalysis component and the Index page that drive it,  *)
(* and the local heuristics (type detection, missing-value counting,       *)
(* fallback chart aggregation).                                            *)
(*                                                                         *)
(* Spec       the page, the component and the request chain.               *)
(* SpecLocal  the local heuristics applied to bounded record lists.        *)
(* SpecLive   the request chain under fair scheduling of its settlements.  *)
(* SpecParse  the parsing of the replies of the model.                     *)
(* SpecKey    the API key input.                                           *)
(* SpecChart  the chart data prepared from bounded record lists.           *)
(* SpecCsv    CSV texts converted to record lists.                         *)
(***************************************************************************)
EXTENDS Integers, Sequences, FiniteSets, TLC

VARIABLES
    impl,              \* which of the repository's implementations runs
    engine,            \* Date.parse of a non-ISO string is implementation-defined
    apiKey,            \* the apiKey prop of DataAnalysis
    data,              \* Index: data (the loaded record list)
    page,              \* Index: currentStep and the results handed to handleAnalysisComplete
    isAnalyzing,       \* DataAnalysis: isAnalyzing
    pc,                \* position of analyzeAndCleanDataWithGemini
    inFlight,          \* the stages of the HTTP requests that are outstanding
    requests,          \* stages whose request was issued in the current run, in order
    settled,           \* stages that returned a value or a fallback in the current run
    failed,            \* stages whose request failed in the current run
    failure,           \* the stage whose request failed last in the current run, and how
    cleanedData,       \* local of analyzeAndCleanDataWithGemini
    analysis,          \* local of analyzeAndCleanDataWithGemini
    modelAnalysis,     \* the value the text of the last analyze reply denotes
    chartData,         \* local of analyzeAndCleanDataWithGemini
    summary,           \* local of analyzeAndCleanDataWithGemini
    chartDescriptions, \* local of analyzeAndCleanDataWithGemini
    result,            \* how the last call of analyzeAndCleanDataWithGemini ended
    runs,              \* number of runs started
    call,              \* SpecLocal: the last heuristic applied, its argument and result
    keyInput           \* SpecKey: the state of ApiKeyInput and local storage

vars == <<impl, engine, apiKey, data, page, isAnalyzing, pc, inFlight, requests,
          settled, failed, failure, cleanedData, analysis, modelAnalysis, chartData,
          summary, chartDescriptions, result, runs, call, keyInput>>

-----------------------------------------------------------------------------
(* Bounds *)

\* rows of a one-column record list of SpecLocal
MaxRows == 5
\* rows of a two-column record list of SpecLocal
MaxWideRows == 2
\* rows of a record list loaded into the page
MaxPipeRows == 1
\* runs of the analysis started from the component
MaxRuns == 2
\* tokens of a reply text handed to parseJsonResponse
MaxTextLen == 3
\* categories of a record list of SpecChart: more than the 10 bars of a chart
MaxCategories == 11
\* rows of a record list of SpecChart whose values may be infinite
MaxChartRows == 3
\* fields of a line of a CSV text after the header line
MaxFields == 2
\* lines of a CSV text after the header line
MaxLines == 3

-----------------------------------------------------------------------------
(* JavaScript values of a cell *)

Str(s) == [t |-> "string", s |-> s]
\* a value of type number, written in decimal
Num(s) == [t |-> "number", s |-> s]
Null == [t |-> "null", s |-> "null"]
\* the value of row[key] when key is not an own key of row
Undefined == [t |-> "undefined", s |-> "undefined"]

\* the result of a numeric conversion
NaN == [nan |-> TRUE, n |-> 0]
Finite(n) == [nan |-> FALSE, n |-> n]

\* the numbers that are not finite, as integers outside the range of the
\* finite numbers of the model; a number that is the result of a sum or the
\* value of a chart entry is an integer, one of the two infinities, or
\* NotANumber
PositiveInfinity == 1000000
NegativeInfinity == 0 - PositiveInfinity
NotANumber == 2 * PositiveInfinity

\* x + y of two numbers
Plus(x, y) ==
    CASE x = NotANumber \/ y = NotANumber -> NotANumber
      [] x = PositiveInfinity -> IF y = NegativeInfinity THEN NotANumber ELSE x
      [] x = NegativeInfinity -> IF y = PositiveInfinity THEN NotANumber ELSE x
      [] y \in {PositiveInfinity, NegativeInfinity} -> y
      [] OTHER -> x + y

\* x > y of two numbers: false when either is NaN
Greater(x, y) == x # NotANumber /\ y # NotANumber /\ x > y

\* the truthiness of a number: 0 and NaN are falsy
TruthyNumber(x) == x # 0 /\ x # NotANumber

\* the numeric literals of the model and their values
DecimalValue(s) ==
    CASE s = "0" -> Finite(0)
      [] s = "3" -> Finite(3)
      [] s = "7" -> Finite(7)
      [] s = "2020" -> Finite(2020)
      [] s = "Infinity" -> Finite(PositiveInfinity)
      [] s = "-Infinity" -> Finite(NegativeInfinity)
      [] OTHER -> NaN

\* Number(v)
Number(v) ==
    CASE v.t = "number" -> DecimalValue(v.s)
      [] v.t = "null" -> Finite(0)
      [] v.t = "undefined" -> NaN
      [] v.t = "string" -> IF v.s = "" THEN Finite(0) ELSE DecimalValue(v.s)

\* String(v)
String(v) == v.s

\* the truthiness of v, as || and ! see it
Truthy(v) ==
    CASE v.t = "string" -> v.s # ""
      [] v.t = "number" -> ~Number(v).nan /\ Number(v).n # 0
      [] OTHER -> FALSE

\* !isNaN(Date.parse(v)) under engine e. Date.parse reads String(v). The
\* ISO forms YYYY and YYYY-MM-DD parse in every engine; other digit strings
\* parse only where the engine's fallback parser accepts them ("lenient").
DateParses(v, e) ==
    CASE String(v) \in {"2020", "2021-03-04"} -> TRUE
      [] String(v) \in {"0", "3", "7"} -> e = "lenient"
      [] OTHER -> FALSE

Engines == {"lenient", "strict"}

-----------------------------------------------------------------------------
(* Records and record lists *)

\* the column names of the model, in the order Object.keys lists them
Cols == <<"c1", "c2", "c3">>

Range(s) == {s[i] : i \in 1..Len(s)}

\* Object.keys(row)
Keys(row) == SelectSeq(Cols, LAMBDA k : k \in DOMAIN row)

\* row[key]
Get(row, key) == IF key \in DOMAIN row THEN row[key] ELSE Undefined

\* Object.keys(data[0] || {})
FirstKeys(d) == IF Len(d) = 0 THEN <<>> ELSE Keys(d[1])

\* keys.filter(test)
Filter(keys, Test(_)) == SelectSeq(keys, Test)

\* marks, while the rows of the model are enumerated, a key the row lacks
Absent == [t |-> "absent", s |-> ""]

\* the record {c1: v1, c2: v2}, without the keys whose value is Absent
Row(v1, v2) ==
    [k \in {c \in {"c1", "c2"} : IF c = "c1" THEN v1 # Absent ELSE v2 # Absent}
        |-> IF k = "c1" THEN v1 ELSE v2]

\* the record lists of at most n rows taken from rows
Tables(rows, n) == UNION {[1..k -> rows] : k \in 0..n}

\* array.filter(test).length
Count(s, Test(_)) == Len(SelectSeq(s, Test))

Min(a, b) == IF a < b THEN a ELSE b

-----------------------------------------------------------------------------
(* utils/dataProcessor.ts: the local heuristics *)

\* data.map(row => row[column]).filter(v => v !== '')
ColumnValues(d, column) ==
    SelectSeq([i \in 1..Len(d) |-> Get(d[i], column)], LAMBDA v : v # Str(""))

\* the comparison written with >= instead of >
AtLeast80Percent(k, n) == 5 * k >= 4 * n

\* numericValues.length > values.length * 0.8, for k numeric values among n.
\* The double nearest to 0.8 times n <= 2^50 rounds to a value that an
\* integer k exceeds exactly when 5k > 4n.
MoreThan80Percent(k, n) == 5 * k > 4 * n

\* a classification that tests the dates before the numbers
ColumnTypeDatesFirst(d, column, e) ==
    LET values == ColumnValues(d, column)
        numericValues == Count(values, LAMBDA v : ~Number(v).nan)
        dateValues == Count(values, LAMBDA v : DateParses(v, e))
    IN  IF MoreThan80Percent(dateValues, Len(values)) THEN "temporal"
        ELSE IF MoreThan80Percent(numericValues, Len(values)) THEN "numeric"
        ELSE "categorical"

\* the list detectDataTypes pushes column to
ColumnType(d, column, e) ==
    LET values == ColumnValues(d, column)
        numericValues == Count(values, LAMBDA v : ~Number(v).nan)
        dateValues == Count(values, LAMBDA v : DateParses(v, e))
    IN  IF MoreThan80Percent(numericValues, Len(values)) THEN "numeric"
        ELSE IF MoreThan80Percent(dateValues, Len(values)) THEN "temporal"
        ELSE "categorical"

detectDataTypes(d, e) ==
    IF Len(d) = 0
    THEN [numeric |-> <<>>, categorical |-> <<>>, temporal |-> <<>>]
    ELSE LET columns == Keys(d[1])
         IN  [numeric |-> Filter(columns, LAMBDA c : ColumnType(d, c, e) = "numeric"),
              categorical |-> Filter(columns, LAMBDA c : ColumnType(d, c, e) = "categorical"),
              temporal |-> Filter(columns, LAMBDA c : ColumnType(d, c, e) = "temporal")]

\* value === '' || value === null || value === undefined
IsMissing(v) == v = Str("") \/ v = Null \/ v = Undefined

\* a count over the columns of the list instead of the own keys of the row
MissingInRowOverColumns(row) ==
    Cardinality({k \in Range(Cols) : IsMissing(Get(row, k))})

\* the forEach over Object.values(row)
MissingInRow(row) == Cardinality({k \in DOMAIN row : IsMissing(row[k])})

RECURSIVE MissingUpTo(_, _)
MissingUpTo(d, i) ==
    IF i = 0 THEN 0 ELSE MissingUpTo(d, i - 1) + MissingInRow(d[i])

countMissingValues(d) == MissingUpTo(d, Len(d))

\* value.trim() on the strings of the model
StringTrim(str) ==
    CASE str = " abc" -> "abc"
      [] str = "  " -> ""
      [] str = " AIzaK" -> "AIzaK"
      [] str = " '7'" -> "'7'"
      [] OTHER -> str

\* .replace(/['"]/g, '') on the strings of the model
StripQuotes(str) ==
    CASE str = "'7'" -> "7"
      [] str = "'c2'" -> "c2"
      [] OTHER -> str

\* a CSV text is the list of its lines (what split('\n') gives, never empty),
\* a line the list of its fields (what split(',') gives, never empty)

\* h.trim().replace(/['"]/g, '') in csvToJson, h.trim() in FileUpload
CsvField(field, stripQuotes) ==
    IF stripQuotes THEN StripQuotes(StringTrim(field)) ELSE StringTrim(field)

\* line.trim() is the empty string: a line with a comma is not blank
BlankLine(line) == Len(line) = 1 /\ StringTrim(line[1]) = ""

\* lines[0].split(',').map(...)
CsvHeaders(lines, stripQuotes) ==
    [i \in 1..Len(lines[1]) |-> CsvField(lines[1][i], stripQuotes)]

\* the row built by headers.forEach((header, index) => row[header] =
\* values[index] || ''): the last header of a name assigns last
CsvRow(headers, line, stripQuotes) ==
    [header \in Range(headers) |->
        LET index == CHOOSE i \in 1..Len(headers) :
                         /\ headers[i] = header
                         /\ \A j \in (i + 1)..Len(headers) : headers[j] # header
        IN  IF index <= Len(line) THEN Str(CsvField(line[index], stripQuotes))
            ELSE Str("")]

\* a conversion that makes a record of every line after the header line
csvToJsonOfEveryLine(lines, stripQuotes) ==
    [i \in 1..Len(Tail(lines)) |->
        CsvRow(CsvHeaders(lines, stripQuotes), Tail(lines)[i], stripQuotes)]

\* csvToJson(csvText); with stripQuotes false, the conversion in the load
\* handler of FileUpload
csvToJson(lines, stripQuotes) ==
    LET kept == SelectSeq(Tail(lines), LAMBDA line : ~BlankLine(line))
    IN  [i \in 1..Len(kept) |->
            CsvRow(CsvHeaders(lines, stripQuotes), kept[i], stripQuotes)]

\* /^[a-z...\s]+$/i.test(value): letters and white space only
LooksLikeName(str) == str \in {"abc", " abc", "Abc"}

\* value.toLowerCase().replace(/\b\w/g, l => l.toUpperCase())
Capitalize(str) == IF str \in {"abc", "Abc"} THEN "Abc" ELSE str

\* cleanData of utils/dataProcessor.ts: the value stored in cleanedRow[key]
CleanValue(v) ==
    IF v.t # "string" THEN v
    ELSE IF Len(StringTrim(v.s)) > 0 /\ LooksLikeName(StringTrim(v.s))
         THEN Str(Capitalize(StringTrim(v.s)))
    ELSE Str(StringTrim(v.s))

\* cleanData of utils/dataProcessor.ts: data.map(row => cleanedRow)
utilsCleanData(d) == [i \in 1..Len(d) |-> [k \in DOMAIN d[i] |-> CleanValue(d[i][k])]]

\* JSON.stringify of a cell value: a string in quotes, a number or null bare
JsonLiteral(v) == IF v.t = "string" THEN <<"quoted", v.s>> ELSE <<"bare", v.s>>

\* JSON.stringify(row): the own keys in order, each with its value
Signature(row) == [i \in 1..Len(Keys(row)) |-> <<Keys(row)[i], JsonLiteral(row[Keys(row)[i]])>>]

RECURSIVE DuplicatesUpTo(_, _)
\* findDuplicates: seen and duplicates after the first i rows
DuplicatesUpTo(d, i) ==
    IF i = 0 THEN [seen |-> {}, duplicates |-> 0]
    ELSE LET before == DuplicatesUpTo(d, i - 1)
         IN  IF Signature(d[i]) \in before.seen
             THEN [before EXCEPT !.duplicates = @ + 1]
             ELSE [before EXCEPT !.seen = @ \cup {Signature(d[i])}]

\* a count of the pairs of records with the same signature
findDuplicatePairs(d) ==
    Cardinality({p \in (1..Len(d)) \X (1..Len(d)) :
                    p[1] < p[2] /\ Signature(d[p[1]]) = Signature(d[p[2]])})

\* findDuplicates(data)
findDuplicates(d) == DuplicatesUpTo(d, Len(d)).duplicates

-----------------------------------------------------------------------------
(* services/geminiApi.ts and the full GeminiDataProcessor: local analysis *)

\* data.every(item => !isNaN(Number(item[key])) && item[key] !== '' && item[key] !== null)
EveryNumeric(d, key) ==
    \A i \in 1..Len(d) :
        ~Number(Get(d[i], key)).nan /\ Get(d[i], key) # Str("") /\ Get(d[i], key) # Null

\* data.some(item => !isNaN(Date.parse(item[key])) && item[key] !== '' && item[key] !== null)
SomeDate(d, key, e) ==
    \E i \in 1..Len(d) :
        DateParses(Get(d[i], key), e) /\ Get(d[i], key) # Str("") /\ Get(d[i], key) # Null

\* data.some(item => !isNaN(Date.parse(item[k])))
SomeDateParses(d, key, e) == \E i \in 1..Len(d) : DateParses(Get(d[i], key), e)

\* the numeric, temporal and categorical lists of performAutomaticAnalysis
AutomaticTypes(d, e) ==
    LET keys == FirstKeys(d)
        numeric == Filter(keys, LAMBDA key : EveryNumeric(d, key))
        temporal == Filter(keys, LAMBDA key : SomeDate(d, key, e))
        categorical == Filter(keys, LAMBDA key :
                           key \notin Range(numeric) /\ key \notin Range(temporal))
    IN  [numeric |-> numeric, categorical |-> categorical, temporal |-> temporal]

\* types whose categorical list leaves out the numeric columns only
autoDetectedTypesKeepingDates(d, e) ==
    LET keys == FirstKeys(d)
    IN  [numeric |-> Filter(keys, LAMBDA key : EveryNumeric(d, key)),
         categorical |-> Filter(keys, LAMBDA key :
             key \notin Range(Filter(keys, LAMBDA k : EveryNumeric(d, k)))),
         temporal |-> Filter(keys, LAMBDA key : SomeDate(d, key, e))]

\* autoDetectedTypes of validateAndEnhanceAnalysis
autoDetectedTypes(d, e) ==
    LET keys == FirstKeys(d)
    IN  [numeric |-> Filter(keys, LAMBDA key : EveryNumeric(d, key)),
         categorical |-> Filter(keys, LAMBDA key :
             key \notin Range(Filter(keys, LAMBDA k : EveryNumeric(d, k)))
             /\ key \notin Range(Filter(keys, LAMBDA k : SomeDateParses(d, k, e)))),
         temporal |-> Filter(keys, LAMBDA key : SomeDate(d, key, e))]

Recommendation(type, reason, confidence) ==
    [type |-> type, reason |-> reason, confidence |-> confidence]

generateEnhancedChartRecommendations(dataTypes) ==
    (IF Len(dataTypes.categorical) > 0 /\ Len(dataTypes.numeric) > 0
     THEN <<Recommendation("bar",
              <<"Comparar", dataTypes.categorical[1], "por", dataTypes.numeric[1]>>, 95)>>
     ELSE <<>>)
    \o
    (IF Len(dataTypes.temporal) > 0 /\ Len(dataTypes.numeric) > 0
     THEN <<Recommendation("line",
              <<"Tendencia de", dataTypes.numeric[1], "ao longo de", dataTypes.temporal[1]>>, 90)>>
     ELSE <<>>)
    \o
    (IF Len(dataTypes.categorical) > 0
     THEN <<Recommendation("pie", <<"Distribuicao de", dataTypes.categorical[1]>>, 85)>>
     ELSE <<>>)
    \o
    (IF Len(dataTypes.numeric) >= 2
     THEN <<Recommendation("scatter",
              <<"Correlacao entre", dataTypes.numeric[1], "e", dataTypes.numeric[2]>>, 80)>>
     ELSE <<>>)

RECURSIVE InsertByConfidence(_, _)
\* s, descending by confidence, with x added after the entries of the same
\* confidence
InsertByConfidence(s, x) ==
    IF Len(s) = 0 THEN <<x>>
    ELSE IF x.confidence > s[1].confidence THEN <<x>> \o s
    ELSE <<s[1]>> \o InsertByConfidence(Tail(s), x)

RECURSIVE SortByConfidenceUpTo(_, _)
SortByConfidenceUpTo(s, i) ==
    IF i = 0 THEN <<>> ELSE InsertByConfidence(SortByConfidenceUpTo(s, i - 1), s[i])

\* recommendations.sort((a, b) => b.confidence - a.confidence), a stable sort
SortByConfidence(s) == SortByConfidenceUpTo(s, Len(s))

\* the recommendations in the order generateChartRecommendations pushes them
PushedRecommendations(dataTypes) ==
    (IF Len(dataTypes.categorical) > 0 /\ Len(dataTypes.numeric) > 0
     THEN <<Recommendation("bar", <<"Ideal para comparar valores entre categorias">>, 90)>>
     ELSE <<>>)
    \o
    (IF Len(dataTypes.temporal) > 0 /\ Len(dataTypes.numeric) > 0
     THEN <<Recommendation("line",
              <<"Perfeito para mostrar tendencias ao longo do tempo">>, 95)>>
     ELSE <<>>)
    \o
    (IF Len(dataTypes.categorical) > 0
     THEN <<Recommendation("pie",
              <<"Excelente para mostrar proporcoes de categorias">>, 75)>>
     ELSE <<>>)
    \o
    (IF Len(dataTypes.numeric) >= 2
     THEN <<Recommendation("scatter",
              <<"Util para identificar correlacoes entre variaveis">>, 70)>>
     ELSE <<>>)

\* recommendations returned in the order they were pushed
generateChartRecommendationsUnsorted(d, e) ==
    PushedRecommendations(detectDataTypes(d, e))

\* generateChartRecommendations(data) of utils/dataProcessor.ts
generateChartRecommendations(d, e) ==
    SortByConfidence(PushedRecommendations(detectDataTypes(d, e)))

\* the absent chartData of an analysis
NoChartData == [set |-> FALSE, bar |-> <<>>, line |-> <<>>, pie |-> <<>>, scatter |-> <<>>]

\* an analysis object; fields lists the properties it has
Analysis(dataQuality, suggestions, recommendedCharts, dataTypes) ==
    [isNull |-> FALSE,
     fields |-> {"dataQuality", "suggestions", "recommendedCharts", "dataTypes"},
     dataQuality |-> dataQuality,
     suggestions |-> suggestions,
     recommendedCharts |-> recommendedCharts,
     dataTypes |-> dataTypes,
     chartData |-> NoChartData]

DataQuality(totalRows, duplicates, missingValues, inconsistencies) ==
    [totalRows |-> totalRows, duplicates |-> duplicates,
     missingValues |-> missingValues, inconsistencies |-> inconsistencies]

performAutomaticAnalysis(d, e) ==
    Analysis(DataQuality(Len(d), 0, countMissingValues(d), 0),
             <<"Dados analisados automaticamente", "Detectadas colunas">>,
             generateEnhancedChartRecommendations(AutomaticTypes(d, e)),
             AutomaticTypes(d, e))

\* x || fallback for a number x of the reply
OrNumber(has, x, fallback) == IF has /\ x # 0 THEN x ELSE fallback

\* a validation that keeps the column types and the charts of the reply
validateKeepingModelTypes(a, d, e) ==
    Analysis(DataQuality(Len(d), 0, countMissingValues(d), 0),
             <<"Dados processados com sucesso">>,
             IF "recommendedCharts" \in a.fields THEN a.recommendedCharts
             ELSE generateEnhancedChartRecommendations(autoDetectedTypes(d, e)),
             IF "dataTypes" \in a.fields THEN a.dataTypes ELSE autoDetectedTypes(d, e))

\* validateAndEnhanceAnalysis(analysis, data) for an analysis that is an object
validateAndEnhanceAnalysis(a, d, e) ==
    LET hasQuality == "dataQuality" \in a.fields
    IN  Analysis(DataQuality(Len(d),
                             OrNumber(hasQuality, a.dataQuality.duplicates, 0),
                             OrNumber(hasQuality, a.dataQuality.missingValues,
                                      countMissingValues(d)),
                             OrNumber(hasQuality, a.dataQuality.inconsistencies, 0)),
                 IF "suggestions" \in a.fields THEN a.suggestions
                 ELSE <<"Dados processados com sucesso">>,
                 generateEnhancedChartRecommendations(autoDetectedTypes(d, e)),
                 autoDetectedTypes(d, e))

-----------------------------------------------------------------------------
(* chartGenerator.ts and geminiApi.ts: the fallbacks of the chart stages *)

\* .slice(0, 10) of the bar entries
BarLimit == 10

\* the property names that are array indices: Object.entries lists them
\* first, in ascending numeric order
IsIndexKey(name) == name \in {"0", "3", "7", "2020"}

\* String(item[categoryCol] || 'Outros')
CategoryOf(item, categoryCol) ==
    IF Truthy(Get(item, categoryCol)) THEN String(Get(item, categoryCol)) ELSE "Outros"

\* Number(item[valueCol]) || 0
ValueOf(item, valueCol) ==
    IF Number(Get(item, valueCol)).nan THEN 0 ELSE Number(Get(item, valueCol)).n

\* one step of the reduce: acc[category] = (acc[category] || 0) + value.
\* acc is the list of the properties of the accumulator in creation order.
GroupStep(acc, item, categoryCol, valueCol) ==
    LET category == CategoryOf(item, categoryCol)
        value == ValueOf(item, valueCol)
    IN  IF \E i \in 1..Len(acc) : acc[i].name = category
        THEN [i \in 1..Len(acc) |->
                 IF acc[i].name = category
                 THEN [name |-> category,
                       value |-> Plus(IF TruthyNumber(acc[i].value) THEN acc[i].value
                                      ELSE 0, value)]
                 ELSE acc[i]]
        ELSE Append(acc, [name |-> category, value |-> Plus(0, value)])

RECURSIVE Grouped(_, _, _, _)
\* data.reduce(..., {}) over the first i records
Grouped(d, i, categoryCol, valueCol) ==
    IF i = 0 THEN <<>>
    ELSE GroupStep(Grouped(d, i - 1, categoryCol, valueCol), d[i], categoryCol, valueCol)

RECURSIVE InsertAscending(_, _)
\* s, ascending by the numeric value of name, with x added
InsertAscending(s, x) ==
    IF Len(s) = 0 THEN <<x>>
    ELSE IF DecimalValue(x.name).n < DecimalValue(s[1].name).n THEN <<x>> \o s
    ELSE <<s[1]>> \o InsertAscending(Tail(s), x)

RECURSIVE AscendingByIndex(_)
AscendingByIndex(s) ==
    IF Len(s) = 0 THEN <<>>
    ELSE InsertAscending(AscendingByIndex(Tail(s)), s[1])

\* Object.entries(grouped).map(([name, value]) => ({ name, value }))
Entries(acc) ==
    AscendingByIndex(SelectSeq(acc, LAMBDA p : IsIndexKey(p.name)))
    \o SelectSeq(acc, LAMBDA p : ~IsIndexKey(p.name))

RECURSIVE InsertDescending(_, _)
\* s, descending by value, with x added after the entries of the same value
InsertDescending(s, x) ==
    IF Len(s) = 0 THEN <<x>>
    ELSE IF Greater(x.value, s[1].value) THEN <<x>> \o s
    ELSE <<s[1]>> \o InsertDescending(Tail(s), x)

RECURSIVE SortDescendingUpTo(_, _)
SortDescendingUpTo(s, i) ==
    IF i = 0 THEN <<>> ELSE InsertDescending(SortDescendingUpTo(s, i - 1), s[i])

\* .sort((a, b) => b.value - a.value) where the comparator is consistent: a
\* stable sort, a comparison that gives NaN counting as equal
SortByValueDescending(s) == SortDescendingUpTo(s, Len(s))

\* b.value - a.value is no consistent comparator for s: an entry whose value
\* is NaN compares equal to two entries that do not compare equal
InconsistentComparator(s) ==
    /\ \E i \in 1..Len(s) : s[i].value = NotANumber
    /\ \E i, j \in 1..Len(s) : Greater(s[i].value, s[j].value)

\* the rearrangements of s
Rearrangements(s) ==
    {[i \in 1..Len(s) |-> s[f[i]]] :
        f \in {g \in [1..Len(s) -> 1..Len(s)] :
                  \A i, j \in 1..Len(s) : i # j => g[i] # g[j]}}

\* the lists .sort((a, b) => b.value - a.value) can leave: the order is
\* implementation-defined when the comparator is not consistent
SortOutcomes(s) ==
    IF InconsistentComparator(s) THEN Rearrangements(s) ELSE {SortByValueDescending(s)}

\* .slice(0, n)
Slice(s, n) == SubSeq(s, 1, Min(n, Len(s)))

\* the entries generateFallbackChartData sorts: Object.entries(grouped).map(...)
FallbackEntries(d, dataTypes) ==
    IF Len(dataTypes.categorical) > 0 /\ Len(dataTypes.numeric) > 0
    THEN Entries(Grouped(d, Len(d), dataTypes.categorical[1], dataTypes.numeric[1]))
    ELSE <<>>

\* generateFallbackChartData(data, analysis) for an analysis that has
\* dataTypes; sorted is what the sort left of FallbackEntries
generateFallbackChartData(d, dataTypes, sorted) ==
    [set |-> TRUE,
     bar |-> IF Len(dataTypes.categorical) > 0 /\ Len(dataTypes.numeric) > 0
             THEN Slice(sorted, BarLimit)
             ELSE <<>>,
     line |-> <<>>, pie |-> <<>>, scatter |-> <<>>]

-----------------------------------------------------------------------------
(* ChartVisualization.tsx: the data the component prepares for its charts *)

\* .slice(0, 8) of the pie entries
PieLimit == 8

\* new Date(v).getTime(): the days of the dates of the model, counted as
\* YYYYMMDD. A string is parsed as Date.parse parses it (the digit strings
\* that are no ISO form only in the lenient engine, as month and year 2001,
\* or as the year 2000 for '0'); a number is a time value, null is time 0.
DateTime(v, e) ==
    CASE v.t = "string" /\ v.s = "2020" -> Finite(20200101)
      [] v.t = "string" /\ v.s = "2021-03-04" -> Finite(20210304)
      [] v.t = "string" /\ v.s = "0" /\ e = "lenient" -> Finite(20000101)
      [] v.t = "string" /\ v.s = "3" /\ e = "lenient" -> Finite(20010301)
      [] v.t = "string" /\ v.s = "7" /\ e = "lenient" -> Finite(20010701)
      [] v.t = "number" /\ ~Number(v).nan /\ Number(v).n \notin {PositiveInfinity, NegativeInfinity}
            -> Finite(Number(v).n)
      [] v.t = "null" -> Finite(0)
      [] OTHER -> NaN

\* String(item[col] || label)
LabelOf(item, col, label) ==
    IF Truthy(Get(item, col)) THEN String(Get(item, col)) ELSE label

\* one step of the reduce of the bar and pie data:
\* if (acc[category]) acc[category] += value; else acc[category] = value
SumStep(acc, item, categoryCol, valueCol, label) ==
    LET category == LabelOf(item, categoryCol, label)
        value == ValueOf(item, valueCol)
    IN  IF \E i \in 1..Len(acc) : acc[i].name = category
        THEN [i \in 1..Len(acc) |->
                 IF acc[i].name = category
                 THEN [name |-> category,
                       value |-> IF TruthyNumber(acc[i].value)
                                 THEN Plus(acc[i].value, value) ELSE value]
                 ELSE acc[i]]
        ELSE Append(acc, [name |-> category, value |-> value])

RECURSIVE Summed(_, _, _, _, _)
\* data.reduce(..., {}) over the first i records
Summed(d, i, categoryCol, valueCol, label) ==
    IF i = 0 THEN <<>>
    ELSE SumStep(Summed(d, i - 1, categoryCol, valueCol, label), d[i],
                 categoryCol, valueCol, label)

\* one step of the reduce of the pie data without a value column:
\* acc[category] = (acc[category] || 0) + 1
CountStep(acc, item, categoryCol) ==
    LET category == LabelOf(item, categoryCol, "Outros")
    IN  IF \E i \in 1..Len(acc) : acc[i].name = category
        THEN [i \in 1..Len(acc) |->
                 IF acc[i].name = category
                 THEN [name |-> category, value |-> acc[i].value + 1]
                 ELSE acc[i]]
        ELSE Append(acc, [name |-> category, value |-> 1])

RECURSIVE Counted(_, _, _)
Counted(d, i, categoryCol) ==
    IF i = 0 THEN <<>> ELSE CountStep(Counted(d, i - 1, categoryCol), d[i], categoryCol)

RECURSIVE InsertByDate(_, _)
\* s, ascending by date, with x added after the entries of the same date
InsertByDate(s, x) ==
    IF Len(s) = 0 THEN <<x>>
    ELSE IF x.date < s[1].date THEN <<x>> \o s
    ELSE <<s[1]>> \o InsertByDate(Tail(s), x)

RECURSIVE SortByDateUpTo(_, _)
SortByDateUpTo(s, i) ==
    IF i = 0 THEN <<>> ELSE InsertByDate(SortByDateUpTo(s, i - 1), s[i])

\* .sort((a, b) => a.date.getTime() - b.date.getTime()), a stable sort
SortByDate(s) == SortByDateUpTo(s, Len(s))

\* the columns the charts are made of: finalNumericColumns,
\* finalCategoricalColumns and temporalColumns; dataTypes holds the lists of
\* analysis.dataTypes, empty where the analysis has none
FinalColumns(d, dataTypes) ==
    LET keys == Keys(d[1])
        autoNumericColumns == Filter(keys, LAMBDA key : EveryNumeric(d, key))
        autoCategoricalColumns ==
            Filter(keys, LAMBDA key : key \notin Range(autoNumericColumns)
                                      /\ key \notin Range(dataTypes.temporal))
    IN  [numeric |-> IF Len(dataTypes.numeric) > 0 THEN dataTypes.numeric
                     ELSE autoNumericColumns,
         categorical |-> IF Len(dataTypes.categorical) > 0 THEN dataTypes.categorical
                         ELSE autoCategoricalColumns,
         temporal |-> dataTypes.temporal]

\* the entries the bar data is sorted from
BarEntries(d, columns) ==
    IF Len(columns.categorical) > 0 /\ Len(columns.numeric) > 0
    THEN Entries(Summed(d, Len(d), columns.categorical[1], columns.numeric[1],
                        "Sem categoria"))
    ELSE <<>>

\* barChartData; sorted is what the sort left of BarEntries
BarChartData(sorted) == Slice(sorted, BarLimit)

\* lineChartData
LineChartData(d, columns, e, bar) ==
    IF Len(columns.temporal) > 0 /\ Len(columns.numeric) > 0
    THEN LET mapped == [i \in 1..Len(d) |->
                           [name |-> String(Get(d[i], columns.temporal[1])),
                            value |-> ValueOf(d[i], columns.numeric[1]),
                            valid |-> ~DateTime(Get(d[i], columns.temporal[1]), e).nan,
                            date |-> DateTime(Get(d[i], columns.temporal[1]), e).n]]
             sorted == SortByDate(SelectSeq(mapped, LAMBDA item : item.valid))
         IN  [i \in 1..Len(sorted) |-> [name |-> sorted[i].name, value |-> sorted[i].value]]
    ELSE IF Len(columns.categorical) > 0 /\ Len(columns.numeric) > 0 THEN bar
    ELSE <<>>

\* pieChartData: the sums of the first numeric column that are more than 0
\* (no NaN among them, so that the comparator is consistent), or the counts
PieChartData(d, columns) ==
    IF Len(columns.categorical) = 0 THEN <<>>
    ELSE IF Len(columns.numeric) > 0 /\ columns.numeric[1] # ""
    THEN Slice(SortByValueDescending(
                   SelectSeq(Entries(Summed(d, Len(d), columns.categorical[1],
                                            columns.numeric[1], "Outros")),
                             LAMBDA item : Greater(item.value, 0))),
               PieLimit)
    ELSE Slice(SortByValueDescending(Entries(Counted(d, Len(d), columns.categorical[1]))),
               PieLimit)

\* scatterChartData: x and y are never NaN after || 0
ScatterChartData(d, columns) ==
    IF Len(columns.numeric) >= 2
    THEN [i \in 1..Len(d) |->
             [x |-> ValueOf(d[i], columns.numeric[1]),
              y |-> ValueOf(d[i], columns.numeric[2]),
              name |-> IF Len(columns.categorical) > 0
                       THEN LabelOf(d[i], columns.categorical[1], "Item")
                       ELSE "Item"]]
    ELSE <<>>

\* availableCharts
AvailableCharts(line, pie, scatter) ==
    <<"bar">> \o (IF Len(line) > 0 THEN <<"line">> ELSE <<>>)
              \o (IF Len(pie) > 0 THEN <<"pie">> ELSE <<>>)
              \o (IF Len(scatter) > 0 THEN <<"scatter">> ELSE <<>>)

\* what useMemo returns for a non-empty record list
PreparedCharts(d, dataTypes, e, sorted) ==
    LET columns == FinalColumns(d, dataTypes)
        bar == BarChartData(sorted)
        line == LineChartData(d, columns, e, bar)
        pie == PieChartData(d, columns)
        scatter == ScatterChartData(d, columns)
    IN  [barData |-> bar, lineData |-> line, pieData |-> pie, scatterData |-> scatter,
         availableCharts |-> AvailableCharts(line, pie, scatter)]

\* what useMemo returns for an empty record list
NoCharts ==
    [barData |-> <<>>, lineData |-> <<>>, pieData |-> <<>>, scatterData |-> <<>>,
     availableCharts |-> <<"bar">>]

\* generateFallbackReports(chartData)
generateFallbackReports ==
    [fields |-> {"bar", "line", "pie", "scatter"},
     bar |-> "Grafico de barras mostrando a distribuicao dos dados por categorias principais.",
     line |-> "Grafico de linhas apresentando a evolucao temporal dos valores.",
     pie |-> "Grafico de pizza demonstrando a proporcao entre diferentes segmentos.",
     scatter |-> "Grafico de dispersao revelando correlacoes entre variaveis numericas."]

-----------------------------------------------------------------------------
(* The reply of the AI endpoint *)

\* the three backquotes of a markdown fence
FENCE == "<fence>"
LANG == "json"
NL == "\n"
\* the text of one JSON value; the response carries the value it denotes
JSON == "<json>"
\* text that is no JSON
PROSE == "prose"

\* a response of fetch: status "neterr" when fetch rejects, "non2xx" when
\* response.ok is false, "ok" otherwise; text is
\* candidates[0].content.parts[0].text as a list of tokens, empty when it is
\* missing or the empty string; val is what the JSON token of text denotes
Response(status, text, val) == [status |-> status, text |-> text, val |-> val]

RECURSIVE StripFences(_)
\* text.replace(/FENCEjson\n?|\n?FENCE/g, '')
StripFences(t) ==
    IF Len(t) = 0 THEN <<>>
    ELSE IF t[1] = FENCE /\ Len(t) >= 2 /\ t[2] = LANG
         THEN IF Len(t) >= 3 /\ t[3] = NL
              THEN StripFences(SubSeq(t, 4, Len(t)))
              ELSE StripFences(SubSeq(t, 3, Len(t)))
    ELSE IF t[1] = NL /\ Len(t) >= 2 /\ t[2] = FENCE
         THEN StripFences(SubSeq(t, 3, Len(t)))
    ELSE IF t[1] = FENCE
         THEN StripFences(Tail(t))
    ELSE <<t[1]>> \o StripFences(Tail(t))

RECURSIVE StripBareFences(_)
\* text.replace(/FENCE\n?|\n?FENCE/g, '')
StripBareFences(t) ==
    IF Len(t) = 0 THEN <<>>
    ELSE IF t[1] = FENCE
         THEN IF Len(t) >= 2 /\ t[2] = NL
              THEN StripBareFences(SubSeq(t, 3, Len(t)))
              ELSE StripBareFences(Tail(t))
    ELSE IF t[1] = NL /\ Len(t) >= 2 /\ t[2] = FENCE
         THEN StripBareFences(SubSeq(t, 3, Len(t)))
    ELSE <<t[1]>> \o StripBareFences(Tail(t))

RECURSIVE TrimStart(_)
TrimStart(t) == IF Len(t) > 0 /\ t[1] = NL THEN TrimStart(Tail(t)) ELSE t

RECURSIVE TrimEnd(_)
TrimEnd(t) ==
    IF Len(t) > 0 /\ t[Len(t)] = NL THEN TrimEnd(SubSeq(t, 1, Len(t) - 1)) ELSE t

\* text.trim()
Trim(t) == TrimEnd(TrimStart(t))

\* JSON.parse(jsonText) returns (the value of the one JSON token) and does not throw
JsonParses(jsonText) == jsonText = <<JSON>>

\* a jsonText from which no fence is removed
JsonTextUnstripped(text, client) == Trim(text)

\* the jsonText of parseJsonResponse: first definition of apiClient.ts and the
\* inline copies of geminiApi.ts ("v1"), second definition of apiClient.ts ("v2")
JsonText(text, client) ==
    IF client = "v2" THEN Trim(StripBareFences(StripFences(text)))
    ELSE Trim(StripFences(text))

Thrown(cause) == [threw |-> TRUE, cause |-> cause]
Returned(value) == [threw |-> FALSE, value |-> value]

\* GeminiApiClient.parseJsonResponse(text) of either client; val is the value
\* the JSON token of text denotes
parseJsonResponse(text, val, client) ==
    IF JsonParses(JsonText(text, client)) THEN Returned(val)
    ELSE Thrown("Erro ao fazer parse da resposta JSON")

\* GeminiApiClient: makeRequest, then extractTextFromResponse
RequestText(resp) ==
    IF resp.status # "ok" THEN Thrown(resp.status)
    ELSE IF Len(resp.text) = 0 THEN Thrown("notext")
    ELSE Returned(resp.text)

\* GeminiApiClient: makeRequest, extractTextFromResponse, then parseJsonResponse
RequestJson(resp, client) ==
    IF RequestText(resp).threw THEN RequestText(resp)
    ELSE IF ~JsonParses(JsonText(resp.text, client)) THEN Thrown("badjson")
    ELSE Returned(resp.val)

\* how the request of a stage that expects JSON failed, "none" when it did not
FailureKind(resp, client) ==
    IF RequestJson(resp, client).threw THEN RequestJson(resp, client).cause ELSE "none"

\* how the request of the summary stage, which expects text, failed
TextFailureKind(resp) ==
    IF RequestText(resp).threw THEN RequestText(resp).cause ELSE "none"

FailureKinds == {"neterr", "non2xx", "notext", "badjson"}

-----------------------------------------------------------------------------
(* The stages *)

StageOrder == <<"clean", "analyze", "chartData", "summary", "reports">>
Stages == Range(StageOrder)

\* GeminiDataProcessor.cleanData (both versions)
cleanData(d, resp, client) ==
    IF RequestJson(resp, client).threw THEN Returned(d) ELSE RequestJson(resp, client)

\* geminiApi.ts: cleanDataWithGemini
cleanDataWithGemini(d, resp) ==
    IF resp.status # "ok" THEN Thrown(resp.status)
    ELSE IF Len(resp.text) = 0 THEN Thrown("notext")
    ELSE IF JsonParses(JsonText(resp.text, "v1")) THEN Returned(resp.val)
    ELSE Returned(d)

\* gemini/dataProcessor.ts: GeminiDataProcessor.analyzeData
analyzeDataSimplified(resp, client) == RequestJson(resp, client)

\* the full GeminiDataProcessor.analyzeData; validateAndEnhanceAnalysis reads
\* analysis.dataQuality inside the try and throws a TypeError when analysis is null
analyzeDataFull(d, resp, client, e) ==
    IF RequestJson(resp, client).threw \/ resp.val.isNull
    THEN Returned(performAutomaticAnalysis(d, e))
    ELSE Returned(validateAndEnhanceAnalysis(resp.val, d, e))

\* geminiApi.ts: analyzeDataWithGemini
analyzeDataWithGemini(d, resp, e) ==
    IF resp.status # "ok" THEN Thrown(resp.status)
    ELSE IF Len(resp.text) = 0 THEN Thrown("notext")
    ELSE IF ~JsonParses(JsonText(resp.text, "v1")) \/ resp.val.isNull
         THEN Returned(performAutomaticAnalysis(d, e))
    ELSE Returned(validateAndEnhanceAnalysis(resp.val, d, e))

\* createChartDataPrompt destructures analysis.dataTypes and joins its lists
ChartPromptThrows(a) == a.isNull \/ "dataTypes" \notin a.fields

\* GeminiChartGenerator.generateChartData, after its prompt was built
generateChartDataGenerator(d, a, resp, client, sorted) ==
    IF RequestJson(resp, client).threw
    THEN Returned(generateFallbackChartData(d, a.dataTypes, sorted))
    ELSE RequestJson(resp, client)

\* geminiApi.ts: generateChartData, after its prompt was built
generateChartData(d, a, resp, sorted) ==
    IF resp.status # "ok" THEN Thrown(resp.status)
    ELSE IF Len(resp.text) = 0 THEN Thrown("notext")
    ELSE IF JsonParses(JsonText(resp.text, "v1")) THEN Returned(resp.val)
    ELSE Returned(generateFallbackChartData(d, a.dataTypes, sorted))

NoSummary == <<"Resumo nao disponivel">>

\* GeminiDataProcessor.generateSummary (both versions)
generateSummary(resp) ==
    IF RequestText(resp).threw THEN Returned(NoSummary) ELSE RequestText(resp)

\* geminiApi.ts: generateSummaryWithGemini
generateSummaryWithGemini(resp) ==
    IF resp.status # "ok" THEN Thrown(resp.status)
    ELSE IF Len(resp.text) = 0 THEN Returned(NoSummary)
    ELSE Returned(resp.text)

\* the object JSON.parse('{}') gives
EmptyReports == [fields |-> {}, bar |-> "", line |-> "", pie |-> "", scatter |-> ""]

\* GeminiChartGenerator.generateDetailedChartReports
generateDetailedChartReportsGenerator(resp, client) ==
    IF RequestJson(resp, client).threw THEN Returned(generateFallbackReports)
    ELSE RequestJson(resp, client)

\* geminiApi.ts: generateDetailedChartReports
generateDetailedChartReports(resp) ==
    IF resp.status # "ok" THEN Thrown(resp.status)
    ELSE IF Len(JsonText(resp.text, "v1")) = 0 THEN Returned(EmptyReports)
    ELSE IF JsonParses(JsonText(resp.text, "v1")) THEN Returned(resp.val)
    ELSE Returned(generateFallbackReports)

-----------------------------------------------------------------------------
(* The implementations, the inputs and the replies of the model *)

\* services/geminiApi.ts; services/gemini/index.ts with either version of
\* GeminiDataProcessor and either definition of GeminiApiClient; the
\* component is DataAnalysis.tsx, which has an apiKey prop, or the
\* DataAnalysis without one, which calls geminiApi.ts with the data only
Impls ==
    {[service |-> "geminiApi.ts", processor |-> "inline", client |-> "v1",
      component |-> c] : c \in {"DataAnalysis.tsx", "part_003"}}
    \cup {[service |-> "gemini/index.ts", processor |-> p, client |-> c,
           component |-> "DataAnalysis.tsx"] :
             p \in {"simplified", "full"}, c \in {"v1", "v2"}}

ApiKeys == {"", "AIzaKey"}

\* the records a loaded file holds
PipeRows == {Row(Str("abc"), Str("7")), Row(Str(""), Str("2020")), Row(Num("0"), Str("3"))}
LoadableData == Tables(PipeRows, MaxPipeRows)

\* the record lists the model answers the clean request with
CleanReplies == {<<>>, <<Row(Str("Abc"), Num("7"))>>}

NullAnalysis ==
    [isNull |-> TRUE, fields |-> {},
     dataQuality |-> DataQuality(0, 0, 0, 0), suggestions |-> <<>>,
     recommendedCharts |-> <<>>,
     dataTypes |-> [numeric |-> <<>>, categorical |-> <<>>, temporal |-> <<>>],
     chartData |-> NoChartData]

\* a reply with the requested structure, whose column types and charts are
\* not the ones the local detection gives
FullModelAnalysis ==
    Analysis(DataQuality(99, 1, 0, 2), <<"sugestao do modelo">>,
             <<Recommendation("line", <<"motivo do modelo">>, 90)>>,
             [numeric |-> <<"c1">>, categorical |-> <<"c2">>, temporal |-> <<"c2">>])

\* a reply that is an object without dataQuality, suggestions and dataTypes
PartialModelAnalysis ==
    [NullAnalysis EXCEPT !.isNull = FALSE, !.fields = {"recommendedCharts"},
                         !.recommendedCharts = FullModelAnalysis.recommendedCharts]

ModelAnalyses == {FullModelAnalysis, PartialModelAnalysis, NullAnalysis}

ModelChartData ==
    [set |-> TRUE, bar |-> <<[name |-> "modelo", value |-> 1]>>,
     line |-> <<>>, pie |-> <<>>, scatter |-> <<>>]

ModelReports ==
    [fields |-> {"bar", "line", "pie", "scatter"}, bar |-> "relatorio do modelo",
     line |-> "relatorio do modelo", pie |-> "relatorio do modelo",
     scatter |-> "relatorio do modelo"]

\* texts that hold one JSON value, bare or fenced
JsonTexts == {<<JSON>>, <<FENCE, LANG, NL, JSON, NL, FENCE>>}
\* texts that hold none
BadTexts == {<<PROSE>>, <<FENCE, LANG, NL, FENCE>>}

\* the responses to the request of a stage whose JSON replies are vals
Responses(vals, none) ==
    {Response("neterr", <<>>, none), Response("non2xx", <<>>, none),
     Response("ok", <<>>, none)}
    \cup {Response("ok", t, none) : t \in BadTexts}
    \cup {Response("ok", t, v) : t \in JsonTexts, v \in vals}

-----------------------------------------------------------------------------
(* Index, DataAnalysis and analyzeAndCleanDataWithGemini *)

NoFailure == [stage |-> "none", kind |-> "none"]
NoReports == EmptyReports
NoResult == [status |-> "none", stage |-> "none", cause |-> "none"]

\* the state of Index; completions counts the calls of handleAnalysisComplete
InitialPage ==
    [currentStep |-> "upload", analysis |-> NullAnalysis, cleanedData |-> <<>>,
     summary |-> <<>>, chartDescriptions |-> NoReports, completions |-> 0]

\* the state of ApiKeyInput before it is mounted: the value of the input, the
\* flag isConfigured, and the item 'gemini_api_key' of local storage
Missing == "<no item>"
\* saved is the key handleSaveApiKey stored last, until it is cleared; toast
\* is the title of the last toast
NoKeyInput ==
    [mounted |-> FALSE, effectRan |-> FALSE, apiKey |-> "", showApiKey |-> FALSE,
     isConfigured |-> FALSE, stored |-> Missing, saved |-> Missing, toast |-> "none"]

\* the results of a heuristic before it was called
NoFirst ==
    [dataTypes |-> NullAnalysis.dataTypes, n |-> 0, bar |-> <<>>, rows |-> <<>>,
     recommendedCharts |-> <<>>, chartData |-> NoChartData]

NoCall ==
    [fn |-> "none", dataTypes |-> NullAnalysis.dataTypes, n |-> 0, bar |-> <<>>,
     rows |-> <<>>, recommendedCharts |-> <<>>, chartData |-> NoChartData,
     input |-> <<>>, calls |-> 0, first |-> NoFirst, csv |-> <<>>, toast |-> "none",
     charts |-> NoCharts, activeChart |-> "bar",
     client |-> "none", text |-> <<>>, fence |-> <<>>, plain |-> Thrown("none"),
     fenced |-> Thrown("none")]

Init ==
    /\ impl \in Impls
    /\ engine \in Engines
    /\ apiKey \in ApiKeys
    /\ data = <<>>
    /\ page = InitialPage
    /\ isAnalyzing = FALSE
    /\ pc = "idle"
    /\ inFlight = <<>>
    /\ requests = <<>>
    /\ settled = <<>>
    /\ failed = {}
    /\ failure = NoFailure
    /\ cleanedData = <<>>
    /\ analysis = NullAnalysis
    /\ modelAnalysis = NullAnalysis
    /\ chartData = NoChartData
    /\ summary = <<>>
    /\ chartDescriptions = NoReports
    /\ result = NoResult
    /\ runs = 0
    /\ call = NoCall
    /\ keyInput = NoKeyInput

\* Index renders FileUpload
UploadPanelRendered == page.currentStep = "upload"

\* a DataAnalysis rendered for an empty record list too
AnalysisPanelRenderedWhenEmpty == page.currentStep = "analysis"

\* Index renders DataAnalysis
AnalysisPanelRendered == page.currentStep = "analysis" /\ Len(data) > 0

\* Index renders the summary and the charts
VisualizationRendered ==
    /\ page.currentStep = "visualization"
    /\ ~page.analysis.isNull
    /\ Len(page.cleanedData) > 0

\* the apiKey argument of analyzeAndCleanDataWithGemini: the prop of
\* DataAnalysis.tsx, undefined in the component without the prop
KeyPassed == IF impl.component = "part_003" THEN "" ELSE apiKey

\* the disabled attribute of the button of DataAnalysis
ButtonDisabled ==
    isAnalyzing \/ (impl.component = "DataAnalysis.tsx" /\ apiKey = "")

KeyNotConfigured == "API Key do Gemini nao configurada"

\* a FileUpload that is rendered at every step
handleDataLoadedAtAnyStep ==
    /\ \E loadedData \in LoadableData : data' = loadedData
    /\ page' = [page EXCEPT !.currentStep = "analysis"]
    /\ UNCHANGED <<impl, engine, apiKey, isAnalyzing, pc, inFlight, requests, settled,
                   failed, failure, cleanedData, analysis, modelAnalysis, chartData,
                   summary, chartDescriptions, result, runs, call, keyInput>>

\* Index.handleDataLoaded, called by FileUpload, which is rendered at step 'upload'
handleDataLoaded ==
    /\ UploadPanelRendered
    /\ \E loadedData \in LoadableData : data' = loadedData
    /\ page' = [page EXCEPT !.currentStep = "analysis"]
    /\ UNCHANGED <<impl, engine, apiKey, isAnalyzing, pc, inFlight, requests, settled,
                   failed, failure, cleanedData, analysis, modelAnalysis, chartData,
                   summary, chartDescriptions, result, runs, call, keyInput>>

RECURSIVE Remove(_, _)
\* s without the first occurrence of x
Remove(s, x) ==
    IF Len(s) = 0 THEN <<>>
    ELSE IF s[1] = x THEN Tail(s)
    ELSE <<s[1]>> \o Remove(Tail(s), x)

\* the chain with the summary requested before the chart data
NextStageSummaryFirst(stage) ==
    CASE stage = "clean" -> "analyze"
      [] stage = "analyze" -> "summary"
      [] stage = "summary" -> "chartData"
      [] stage = "chartData" -> "reports"

\* the stage whose request follows that of stage
NextStage(stage) ==
    CASE stage = "clean" -> "analyze"
      [] stage = "analyze" -> "chartData"
      [] stage = "chartData" -> "summary"
      [] stage = "summary" -> "reports"

\* fetch is called for stage
Issue(stage) ==
    /\ requests' = Append(requests, stage)
    /\ inFlight' = Append(Remove(inFlight, pc), stage)
    /\ pc' = stage

\* the request of the stage at pc failed (kind is not "none") or did not
Note(kind) ==
    /\ failed' = IF kind = "none" THEN failed ELSE failed \cup {pc}
    /\ failure' = IF kind = "none" THEN failure ELSE [stage |-> pc, kind |-> kind]

\* a stage that answers a failure with a second request
RetriesOnThrow(cause) ==
    /\ requests' = Append(requests, pc)
    /\ UNCHANGED <<result, isAnalyzing, inFlight, pc, settled, page>>

\* an analyzeData of the component without its finally block
RejectsStillAnalyzing(cause) ==
    /\ result' = [status |-> "rejected", stage |-> pc, cause |-> cause]
    /\ inFlight' = Remove(inFlight, pc)
    /\ pc' = "idle"
    /\ UNCHANGED <<isAnalyzing, requests, settled, page>>

\* the stage at pc threw: analyzeAndCleanDataWithGemini rethrows, and
\* analyzeData of the component shows the error toast and resets isAnalyzing
Rejects(cause) ==
    /\ result' = [status |-> "rejected", stage |-> pc, cause |-> cause]
    /\ isAnalyzing' = FALSE
    /\ inFlight' = Remove(inFlight, pc)
    /\ pc' = "idle"
    /\ UNCHANGED <<requests, settled, page>>

\* a button that stays enabled while isAnalyzing
analyzeDataWhileAnalyzing ==
    /\ AnalysisPanelRendered
    /\ impl.component = "DataAnalysis.tsx" => apiKey # ""
    /\ runs < MaxRuns
    /\ isAnalyzing' = TRUE
    /\ runs' = runs + 1
    /\ IF KeyPassed = ""
       THEN requests' = <<>> /\ inFlight' = inFlight /\ pc' = "nokey"
       ELSE requests' = <<"clean">> /\ inFlight' = Append(inFlight, "clean") /\ pc' = "clean"
    /\ settled' = <<>>
    /\ failed' = {}
    /\ failure' = NoFailure
    /\ cleanedData' = <<>>
    /\ analysis' = NullAnalysis
    /\ modelAnalysis' = NullAnalysis
    /\ chartData' = NoChartData
    /\ summary' = <<>>
    /\ chartDescriptions' = NoReports
    /\ result' = [NoResult EXCEPT !.status = "pending"]
    /\ UNCHANGED <<impl, engine, apiKey, data, page, call, keyInput>>

\* a component and a service that do not test the key
analyzeDataWithoutKey ==
    /\ AnalysisPanelRendered
    /\ ~isAnalyzing
    /\ runs < MaxRuns
    /\ isAnalyzing' = TRUE
    /\ runs' = runs + 1
    /\ requests' = <<"clean">>
    /\ inFlight' = Append(inFlight, "clean")
    /\ pc' = "clean"
    /\ settled' = <<>>
    /\ failed' = {}
    /\ failure' = NoFailure
    /\ cleanedData' = <<>>
    /\ analysis' = NullAnalysis
    /\ modelAnalysis' = NullAnalysis
    /\ chartData' = NoChartData
    /\ summary' = <<>>
    /\ chartDescriptions' = NoReports
    /\ result' = [NoResult EXCEPT !.status = "pending"]
    /\ UNCHANGED <<impl, engine, apiKey, data, page, call, keyInput>>

\* analyzeData of the component on a click of its button. DataAnalysis.tsx
\* returns at once without an apiKey (its button is disabled then, and while
\* isAnalyzing). The call of analyzeAndCleanDataWithGemini throws without a
\* key, before any stage; with one it issues the request of the clean stage.
analyzeData ==
    /\ AnalysisPanelRendered
    /\ ~ButtonDisabled
    /\ impl.component = "DataAnalysis.tsx" => apiKey # ""
    /\ runs < MaxRuns
    /\ isAnalyzing' = TRUE
    /\ runs' = runs + 1
    /\ IF KeyPassed = ""
       THEN requests' = <<>> /\ inFlight' = inFlight /\ pc' = "nokey"
       ELSE requests' = <<"clean">> /\ inFlight' = Append(inFlight, "clean") /\ pc' = "clean"
    /\ settled' = <<>>
    /\ failed' = {}
    /\ failure' = NoFailure
    /\ cleanedData' = <<>>
    /\ analysis' = NullAnalysis
    /\ modelAnalysis' = NullAnalysis
    /\ chartData' = NoChartData
    /\ summary' = <<>>
    /\ chartDescriptions' = NoReports
    /\ result' = [NoResult EXCEPT !.status = "pending"]
    /\ UNCHANGED <<impl, engine, apiKey, data, page, call, keyInput>>

\* analyzeAndCleanDataWithGemini was called without a key: the promise is
\* rejected, analyzeData of the component shows the error toast and resets
\* isAnalyzing
KeyMissingRejects ==
    /\ pc = "nokey"
    /\ result' = [status |-> "rejected", stage |-> "none", cause |-> KeyNotConfigured]
    /\ isAnalyzing' = FALSE
    /\ pc' = "idle"
    /\ UNCHANGED <<impl, engine, apiKey, data, page, inFlight, requests, settled,
                   failed, failure, cleanedData, analysis, modelAnalysis, chartData,
                   summary, chartDescriptions, runs, call, keyInput>>

\* the response of the clean request arrives
CleanSettles ==
    /\ pc = "clean"
    /\ "clean" \in Range(inFlight)
    /\ \E resp \in Responses(CleanReplies, <<>>) :
        LET r == IF impl.service = "geminiApi.ts" THEN cleanDataWithGemini(data, resp)
                 ELSE cleanData(data, resp, impl.client)
        IN  /\ Note(FailureKind(resp, impl.client))
            /\ IF r.threw
               THEN Rejects(r.cause) /\ UNCHANGED cleanedData
               ELSE /\ cleanedData' = r.value
                    /\ settled' = Append(settled, "clean")
                    /\ Issue(NextStage("clean"))
                    /\ UNCHANGED <<result, isAnalyzing, page>>
    /\ UNCHANGED <<impl, engine, apiKey, data, analysis, modelAnalysis, chartData,
                   summary, chartDescriptions, runs, call, keyInput>>

\* the response of the analyze request arrives; generateChartData then
\* builds its prompt and issues its request
AnalyzeSettles ==
    /\ pc = "analyze"
    /\ "analyze" \in Range(inFlight)
    /\ \E resp \in Responses(ModelAnalyses, NullAnalysis) :
        LET r == CASE impl.service = "geminiApi.ts" ->
                          analyzeDataWithGemini(cleanedData, resp, engine)
                   [] impl.processor = "simplified" ->
                          analyzeDataSimplified(resp, impl.client)
                   [] impl.processor = "full" ->
                          analyzeDataFull(cleanedData, resp, impl.client, engine)
        IN  /\ Note(FailureKind(resp, impl.client))
            /\ modelAnalysis' = resp.val
            /\ IF r.threw
               THEN Rejects(r.cause) /\ UNCHANGED analysis
               ELSE /\ analysis' = r.value
                    /\ settled' = Append(settled, "analyze")
                    /\ IF ChartPromptThrows(r.value)
                       THEN /\ result' = [status |-> "rejected", stage |-> "chartData",
                                          cause |-> "TypeError"]
                            /\ isAnalyzing' = FALSE
                            /\ inFlight' = Remove(inFlight, pc)
                            /\ pc' = "idle"
                            /\ UNCHANGED <<requests, page>>
                       ELSE /\ Issue(NextStage("analyze"))
                            /\ UNCHANGED <<result, isAnalyzing, page>>
    /\ UNCHANGED <<impl, engine, apiKey, data, cleanedData, chartData, summary,
                   chartDescriptions, runs, call, keyInput>>

\* the response of the chart-data request arrives; analysis.chartData = chartData
ChartDataSettles ==
    /\ pc = "chartData"
    /\ "chartData" \in Range(inFlight)
    /\ \E resp \in Responses({ModelChartData}, NoChartData),
          sorted \in SortOutcomes(FallbackEntries(cleanedData, analysis.dataTypes)) :
        LET r == IF impl.service = "geminiApi.ts"
                 THEN generateChartData(cleanedData, analysis, resp, sorted)
                 ELSE generateChartDataGenerator(cleanedData, analysis, resp,
                                                 impl.client, sorted)
        IN  /\ Note(FailureKind(resp, impl.client))
            /\ IF r.threw
               THEN Rejects(r.cause) /\ UNCHANGED <<chartData, analysis>>
               ELSE /\ chartData' = r.value
                    /\ analysis' = [analysis EXCEPT !.chartData = r.value]
                    /\ settled' = Append(settled, "chartData")
                    /\ Issue(NextStage("chartData"))
                    /\ UNCHANGED <<result, isAnalyzing, page>>
    /\ UNCHANGED <<impl, engine, apiKey, data, cleanedData, modelAnalysis, summary,
                   chartDescriptions, runs, call, keyInput>>

\* the response of the summary request arrives
SummarySettles ==
    /\ pc = "summary"
    /\ "summary" \in Range(inFlight)
    /\ \E resp \in Responses({NoChartData}, NoChartData) :
        LET r == IF impl.service = "geminiApi.ts" THEN generateSummaryWithGemini(resp)
                 ELSE generateSummary(resp)
        IN  /\ Note(TextFailureKind(resp))
            /\ IF r.threw
               THEN Rejects(r.cause) /\ UNCHANGED summary
               ELSE /\ summary' = r.value
                    /\ settled' = Append(settled, "summary")
                    /\ Issue(NextStage("summary"))
                    /\ UNCHANGED <<result, isAnalyzing, page>>
    /\ UNCHANGED <<impl, engine, apiKey, data, cleanedData, analysis, modelAnalysis,
                   chartData, chartDescriptions, runs, call, keyInput>>

\* the response of the reports request arrives; the call resolves, analyzeData
\* of the component calls onAnalysisComplete (Index.handleAnalysisComplete)
\* and resets isAnalyzing
ReportsSettles ==
    /\ pc = "reports"
    /\ "reports" \in Range(inFlight)
    /\ \E resp \in Responses({ModelReports}, NoReports) :
        LET r == IF impl.service = "geminiApi.ts" THEN generateDetailedChartReports(resp)
                 ELSE generateDetailedChartReportsGenerator(resp, impl.client)
        IN  /\ Note(FailureKind(resp, impl.client))
            /\ IF r.threw
               THEN Rejects(r.cause) /\ UNCHANGED chartDescriptions
               ELSE /\ chartDescriptions' = r.value
                    /\ settled' = Append(settled, "reports")
                    /\ result' = [status |-> "resolved", stage |-> "none", cause |-> "none"]
                    /\ page' = [currentStep |-> "visualization", analysis |-> analysis,
                                cleanedData |-> cleanedData, summary |-> summary,
                                chartDescriptions |-> r.value,
                                completions |-> page.completions + 1]
                    /\ isAnalyzing' = FALSE
                    /\ inFlight' = Remove(inFlight, pc)
                    /\ pc' = "idle"
                    /\ UNCHANGED requests
    /\ UNCHANGED <<impl, engine, apiKey, data, cleanedData, analysis, modelAnalysis,
                   chartData, summary, runs, call, keyInput>>

Next ==
    \/ handleDataLoaded
    \/ analyzeData
    \/ KeyMissingRejects
    \/ CleanSettles
    \/ AnalyzeSettles
    \/ ChartDataSettles
    \/ SummarySettles
    \/ ReportsSettles

Spec == Init /\ [][Next]_vars

\* the step that ends the wait of analyzeAndCleanDataWithGemini: the one
\* request outstanding settles, or the rejection for a missing key is handled
Settles ==
    \/ KeyMissingRejects
    \/ CleanSettles
    \/ AnalyzeSettles
    \/ ChartDataSettles
    \/ SummarySettles
    \/ ReportsSettles

\* every outstanding request eventually settles
Fairness == WF_vars(Settles)

\* the initial states with the first GeminiApiClient and one Date.parse:
\* which client strips the fences and which strings Date.parse accepts change
\* the values a stage returns, not whether its request settles
InitLive == Init /\ impl.client = "v1" /\ engine = "strict"

SpecLive == InitLive /\ [][Next]_vars /\ Fairness

-----------------------------------------------------------------------------
(* SpecLocal: the local heuristics applied to the record lists of the model *)

\* one-column record lists, long enough for a column with 4 numeric values in 5
TallRows == {Row(v, Absent) : v \in {Absent, Str(""), Str("7"), Str("abc")}}
\* two-column record lists
WideRows ==
    {Row(v1, v2) : v1 \in {Absent, Str(""), Null, Str("abc"), Str(" abc"), Str("2020"),
                            Num("0")},
                   v2 \in {Absent, Str("7"), Str("abc"), Str("2021-03-04")}}
\* three-column records: a name, a number and a date, or two numbers and a name
FullRows ==
    {[c1 |-> Str("abc"), c2 |-> Str("7"), c3 |-> Str("2021-03-04")],
     [c1 |-> Str("3"), c2 |-> Str("7"), c3 |-> Str("abc")]}
LocalData ==
    Tables(TallRows, MaxRows) \cup Tables(WideRows, MaxWideRows)
    \cup Tables(FullRows, MaxWideRows)

\* the numeric and categorical lists an analysis may hold
ColumnLists == {<<>>, <<"c1">>, <<"c2", "c1">>}

InitLocal ==
    /\ impl = [service |-> "geminiApi.ts", processor |-> "inline", client |-> "v1",
               component |-> "DataAnalysis.tsx"]
    /\ engine \in Engines
    /\ apiKey = ""
    /\ data \in LocalData
    /\ page = InitialPage
    /\ isAnalyzing = FALSE
    /\ pc = "idle"
    /\ inFlight = <<>>
    /\ requests = <<>>
    /\ settled = <<>>
    /\ failed = {}
    /\ failure = NoFailure
    /\ cleanedData = <<>>
    /\ analysis = NullAnalysis
    /\ modelAnalysis = NullAnalysis
    /\ chartData = NoChartData
    /\ summary = <<>>
    /\ chartDescriptions = NoReports
    /\ result = NoResult
    /\ runs = 0
    /\ call = NoCall
    /\ keyInput = NoKeyInput

\* what a call of a heuristic leaves unchanged
localFrame == <<impl, engine, apiKey, data, page, isAnalyzing, pc, inFlight, requests,
                settled, failed, failure, cleanedData, analysis, modelAnalysis,
                chartData, summary, chartDescriptions, result, runs, keyInput>>

\* what a call returned
ResultOf(c) ==
    [dataTypes |-> c.dataTypes, n |-> c.n, bar |-> c.bar, rows |-> c.rows,
     recommendedCharts |-> c.recommendedCharts, chartData |-> c.chartData]

\* fn is called for the first time, or for the second time with the same input
FirstOrSecond(fn) == call = NoCall \/ (call.fn = fn /\ call.calls = 1)

\* the record of a call of fn: the record list it was given, and what the
\* call before it returned
Called(fn) ==
    [NoCall EXCEPT !.fn = fn, !.input = data, !.calls = call.calls + 1,
                   !.first = IF call.calls = 1 THEN ResultOf(call) ELSE NoFirst]

CallDetectDataTypes ==
    /\ FirstOrSecond("detectDataTypes")
    /\ call' = [Called("detectDataTypes") EXCEPT
                    !.dataTypes = detectDataTypes(data, engine)]
    /\ UNCHANGED localFrame

CallPerformAutomaticAnalysis ==
    /\ call = NoCall
    /\ LET returned == performAutomaticAnalysis(data, engine)
       IN  call' = [Called("performAutomaticAnalysis") EXCEPT
                       !.dataTypes = returned.dataTypes,
                       !.recommendedCharts = returned.recommendedCharts,
                       !.n = returned.dataQuality.totalRows]
    /\ UNCHANGED localFrame

CallValidateAndEnhanceAnalysis ==
    /\ call = NoCall
    /\ \E a \in ModelAnalyses \ {NullAnalysis} :
        LET returned == validateAndEnhanceAnalysis(a, data, engine)
        IN  call' = [Called("validateAndEnhanceAnalysis") EXCEPT
                        !.dataTypes = returned.dataTypes,
                        !.recommendedCharts = returned.recommendedCharts,
                        !.n = returned.dataQuality.totalRows]
    /\ UNCHANGED localFrame

CallGenerateChartRecommendations ==
    /\ call = NoCall
    /\ call' = [Called("generateChartRecommendations") EXCEPT
                    !.dataTypes = detectDataTypes(data, engine),
                    !.recommendedCharts = generateChartRecommendations(data, engine)]
    /\ UNCHANGED localFrame

CallCountMissingValues ==
    /\ FirstOrSecond("countMissingValues")
    /\ call' = [Called("countMissingValues") EXCEPT !.n = countMissingValues(data)]
    /\ UNCHANGED localFrame

CallFindDuplicates ==
    /\ FirstOrSecond("findDuplicates")
    /\ call' = [Called("findDuplicates") EXCEPT !.n = findDuplicates(data)]
    /\ UNCHANGED localFrame

\* a cleanData that writes the cleaned values into the rows it was given
CallCleanDataInPlace ==
    /\ FirstOrSecond("cleanData")
    /\ call' = [Called("cleanData") EXCEPT !.rows = utilsCleanData(data)]
    /\ data' = utilsCleanData(data)
    /\ UNCHANGED <<impl, engine, apiKey, page, isAnalyzing, pc, inFlight, requests,
                   settled, failed, failure, cleanedData, analysis, modelAnalysis,
                   chartData, summary, chartDescriptions, result, runs, keyInput>>

\* cleanData of utils/dataProcessor.ts
CallCleanData ==
    /\ FirstOrSecond("cleanData")
    /\ call' = [Called("cleanData") EXCEPT !.rows = utilsCleanData(data)]
    /\ UNCHANGED localFrame

CallGenerateFallbackChartData ==
    /\ FirstOrSecond("generateFallbackChartData")
    /\ \E numeric \in ColumnLists, categorical \in ColumnLists :
        LET dataTypes == [numeric |-> numeric, categorical |-> categorical,
                          temporal |-> <<>>]
        IN  /\ call.calls = 1 => dataTypes = call.dataTypes
            /\ \E sorted \in SortOutcomes(FallbackEntries(data, dataTypes)) :
                 LET returned == generateFallbackChartData(data, dataTypes, sorted)
                 IN  /\ call.calls = 1 => returned = call.chartData
                     /\ call' = [Called("generateFallbackChartData") EXCEPT
                                     !.dataTypes = dataTypes,
                                     !.bar = returned.bar,
                                     !.chartData = returned]
    /\ UNCHANGED localFrame

NextLocal ==
    \/ CallDetectDataTypes
    \/ CallPerformAutomaticAnalysis
    \/ CallValidateAndEnhanceAnalysis
    \/ CallCountMissingValues
    \/ CallFindDuplicates
    \/ CallGenerateChartRecommendations
    \/ CallCleanData
    \/ CallGenerateFallbackChartData

SpecLocal == InitLocal /\ [][NextLocal]_vars

-----------------------------------------------------------------------------
(* SpecChart: the chart data prepared from the record lists of the model *)

\* how the values of a long record list vary: all the same, one larger value
\* in every second record, or the largest value in the last record
Patterns == {"same", "alternating", "lastLargest"}

\* the value of record i of k in a long record list
LongValue(pattern, i, k) ==
    CASE pattern = "alternating" /\ i % 2 = 0 -> "7"
      [] pattern = "lastLargest" /\ i = k -> "7"
      [] OTHER -> "3"

\* record lists with one category per record
LongData ==
    {[i \in 1..k |-> Row(Str("k" \o ToString(i)), Str(LongValue(pattern, i, k)))] :
        k \in 0..MaxCategories, pattern \in Patterns}

\* records whose values are zero, positive or infinite
ChartRows ==
    {Row(Str("abc"), Str("Infinity")), Row(Str("abc"), Str("-Infinity")),
     Row(Str("x"), Str("7")), Row(Str("y"), Str("3")), Row(Str("z"), Str("0"))}

\* record lists without a categorical or without a numeric column
PlainData ==
    {<<Row(Str("7"), Str("3"))>>,
     <<Row(Str("7"), Str("3")), Row(Str("3"), Str("7"))>>,
     <<Row(Str("x"), Str("abc"))>>,
     <<Row(Str("x"), Str("abc")), Row(Str("x"), Str("2020"))>>}

ChartData == LongData \cup Tables(ChartRows, MaxChartRows) \cup PlainData

InitChart ==
    /\ impl = [service |-> "geminiApi.ts", processor |-> "inline", client |-> "v1",
               component |-> "DataAnalysis.tsx"]
    /\ engine \in Engines
    /\ apiKey = ""
    /\ data \in ChartData
    /\ page = InitialPage
    /\ isAnalyzing = FALSE
    /\ pc = "idle"
    /\ inFlight = <<>>
    /\ requests = <<>>
    /\ settled = <<>>
    /\ failed = {}
    /\ failure = NoFailure
    /\ cleanedData = <<>>
    /\ analysis = NullAnalysis
    /\ modelAnalysis = NullAnalysis
    /\ chartData = NoChartData
    /\ summary = <<>>
    /\ chartDescriptions = NoReports
    /\ result = NoResult
    /\ runs = 0
    /\ call = NoCall
    /\ keyInput = NoKeyInput

\* the temporal columns an analysis names
TemporalLists == {<<>>, <<"c2">>}

\* the tabs of the charts, in the order of the tab list
ChartTabs == <<"bar", "line", "pie", "scatter">>

\* <TabsTrigger value={tab} disabled={!availableCharts.includes(tab)}>
TabEnabled(tab) == tab \in Range(call.charts.availableCharts)

\* ChartVisualization renders for the record list and an analysis: the
\* lists of analysis.dataTypes, empty where the analysis has none, and the
\* order the sort of the bar entries left
ChartVisualization ==
    /\ call = NoCall
    /\ \E numeric \in ColumnLists, categorical \in ColumnLists, temporal \in TemporalLists :
        LET dataTypes == [numeric |-> numeric, categorical |-> categorical,
                          temporal |-> temporal]
        IN  IF Len(data) = 0
            THEN call' = [Called("ChartVisualization") EXCEPT
                              !.dataTypes = dataTypes, !.charts = NoCharts]
            ELSE \E sorted \in SortOutcomes(BarEntries(data, FinalColumns(data, dataTypes))) :
                     call' = [Called("ChartVisualization") EXCEPT
                                  !.dataTypes = dataTypes,
                                  !.charts = PreparedCharts(data, dataTypes, engine, sorted)]
    /\ UNCHANGED localFrame

\* a click on the trigger of a tab that is not disabled:
\* onValueChange={setActiveChart}
setActiveChart ==
    /\ call.fn = "ChartVisualization"
    /\ \E i \in 1..Len(ChartTabs) :
        /\ TabEnabled(ChartTabs[i])
        /\ ChartTabs[i] # call.activeChart
        /\ call' = [call EXCEPT !.activeChart = ChartTabs[i]]
    /\ UNCHANGED localFrame

NextChart ==
    \/ CallGenerateFallbackChartData
    \/ ChartVisualization
    \/ setActiveChart

SpecChart == InitChart /\ [][NextChart]_vars

-----------------------------------------------------------------------------
(* SpecCsv: CSV texts converted to record lists *)

\* the header lines: one name, two names, the same name twice
HeaderLines == {<<"c1">>, <<"c1", "'c2'">>, <<"c1", "c1">>}
\* the fields of the lines after the header line
BodyFields == {"  ", " '7'"}

\* the lines of at most n fields taken from fields
Lines(fields, n) == UNION {[1..k -> fields] : k \in 1..n}

\* the CSV texts of the model: the empty text, and a header line followed
\* by lines of which some are blank
CsvTexts ==
    {<<<<"">>>>}
    \cup {<<header>> \o body :
             header \in HeaderLines,
             body \in Tables(Lines(BodyFields, MaxFields), MaxLines)}

\* csvToJson of utils/dataProcessor.ts
CallCsvToJson ==
    /\ call = NoCall
    /\ \E csvText \in CsvTexts :
        call' = [NoCall EXCEPT !.fn = "csvToJson", !.csv = csvText,
                               !.rows = csvToJson(csvText, TRUE)]
    /\ UNCHANGED localFrame

\* FileUpload: a file is dropped; a CSV file is read, converted and handed
\* to onDataLoaded (handleDataLoaded of Index), another file is refused.
\* One text is converted in a behaviour.
onDrop ==
    /\ UploadPanelRendered
    /\ call = NoCall
    /\ \E fileType \in {"text/csv", "application/json"}, csvText \in CsvTexts :
        IF fileType = "text/csv"
        THEN /\ call' = [NoCall EXCEPT !.fn = "onDrop", !.csv = csvText,
                                       !.rows = csvToJson(csvText, FALSE),
                                       !.toast = "Arquivo carregado com sucesso!"]
             /\ data' = csvToJson(csvText, FALSE)
             /\ page' = [page EXCEPT !.currentStep = "analysis"]
        ELSE /\ call' = [NoCall EXCEPT !.fn = "onDrop", !.toast = "Formato invalido"]
             /\ UNCHANGED <<data, page>>
    /\ UNCHANGED <<impl, engine, apiKey, isAnalyzing, pc, inFlight, requests, settled,
                   failed, failure, cleanedData, analysis, modelAnalysis, chartData,
                   summary, chartDescriptions, result, runs, keyInput>>

NextCsv ==
    \/ CallCsvToJson
    \/ onDrop

InitCsv ==
    /\ impl = [service |-> "geminiApi.ts", processor |-> "inline", client |-> "v1",
               component |-> "DataAnalysis.tsx"]
    /\ engine = "strict"
    /\ apiKey = ""
    /\ data = <<>>
    /\ page = InitialPage
    /\ isAnalyzing = FALSE
    /\ pc = "idle"
    /\ inFlight = <<>>
    /\ requests = <<>>
    /\ settled = <<>>
    /\ failed = {}
    /\ failure = NoFailure
    /\ cleanedData = <<>>
    /\ analysis = NullAnalysis
    /\ modelAnalysis = NullAnalysis
    /\ chartData = NoChartData
    /\ summary = <<>>
    /\ chartDescriptions = NoReports
    /\ result = NoResult
    /\ runs = 0
    /\ call = NoCall
    /\ keyInput = NoKeyInput

SpecCsv == InitCsv /\ [][NextCsv]_vars

\* the lines after the header line that are not blank, by their position
NonBlankLines == {i \in 2..Len(call.csv) : ~BlankLine(call.csv[i])}

\* the position of the line record k was made of, were the records in file order
LineOfRecord(k) ==
    CHOOSE i \in NonBlankLines : Cardinality({j \in NonBlankLines : j <= i}) = k

\* C26: csvToJson (and the load handler of FileUpload) returns one record
\* per non-blank line after the header line, in file order; every record has
\* exactly the header names as keys, a column the line has no value for is
\* the empty string, and the values beyond the last header are dropped.
C26_CsvRecords ==
    (call.fn \in {"csvToJson", "onDrop"} /\ Len(call.csv) > 0) =>
        LET headers == CsvHeaders(call.csv, call.fn = "csvToJson")
        IN  /\ Len(call.rows) = Cardinality(NonBlankLines)
            /\ \A k \in 1..Len(call.rows) :
                   LET line == call.csv[LineOfRecord(k)]
                   IN  /\ DOMAIN call.rows[k] = Range(headers)
                       /\ \A i \in 1..Len(headers) :
                              (\A j \in (i + 1)..Len(headers) : headers[j] # headers[i])
                              => call.rows[k][headers[i]]
                                    = IF i <= Len(line)
                                      THEN Str(CsvField(line[i], call.fn = "csvToJson"))
                                      ELSE Str("")

\* a text of a blank line between a line with one value for two headers and
\* a line with two values was converted
C26_Witness ==
    /\ call.fn = "csvToJson"
    /\ Len(call.csv) = 4
    /\ Len(call.csv[1]) = 2
    /\ call.csv[1][1] # call.csv[1][2]
    /\ Len(call.csv[2]) = 1
    /\ ~BlankLine(call.csv[2])
    /\ BlankLine(call.csv[3])
    /\ Len(call.csv[4]) = 2
    /\ Len(call.rows) = 2
    /\ call.rows[1] # call.rows[2]

-----------------------------------------------------------------------------
(* Claims about the chart data, checked under SpecChart *)

\* x >= y of two numbers: false when either is NaN
GreaterOrEqual(x, y) == x # NotANumber /\ y # NotANumber /\ x >= y

\* the entries of s are in an order of non-increasing value
NonIncreasing(s) ==
    \A i \in 1..(Len(s) - 1) : GreaterOrEqual(s[i].value, s[i + 1].value)

\* C24: the bundle generateFallbackChartData returns has the four fields
\* bar, line, pie and scatter; bar has at most 10 entries in an order of
\* non-increasing value, and is empty when there is no categorical or no
\* numeric column; line, pie and scatter are empty.
C24_FallbackBundleShape ==
    call.fn = "generateFallbackChartData" =>
        /\ {"bar", "line", "pie", "scatter"} \subseteq DOMAIN call.chartData
        /\ Len(call.chartData.bar) <= 10
        /\ NonIncreasing(call.chartData.bar)
        /\ (Len(call.dataTypes.categorical) = 0 \/ Len(call.dataTypes.numeric) = 0)
               => call.chartData.bar = <<>>
        /\ call.chartData.line = <<>>
        /\ call.chartData.pie = <<>>
        /\ call.chartData.scatter = <<>>

\* the prepared data of the tab
PreparedData(tab) ==
    CASE tab = "bar" -> call.charts.barData
      [] tab = "line" -> call.charts.lineData
      [] tab = "pie" -> call.charts.pieData
      [] tab = "scatter" -> call.charts.scatterData

\* the pie data is made of the sums of a numeric column
PieOfNumericColumn ==
    LET columns == FinalColumns(data, call.dataTypes)
    IN  Len(data) > 0 /\ Len(columns.categorical) > 0 /\ Len(columns.numeric) > 0

\* C28: in ChartVisualization the prepared bar data has at most 10 entries
\* and the pie data at most 8, both ordered by non-increasing value; when a
\* numeric column is used every pie entry has a value greater than 0; a tab
\* other than 'bar' is enabled exactly when its prepared data is non-empty,
\* and the 'bar' tab is enabled even when the bar data is empty.
C28_PreparedCharts ==
    call.fn = "ChartVisualization" =>
        /\ Len(call.charts.barData) <= 10
        /\ Len(call.charts.pieData) <= 8
        /\ NonIncreasing(call.charts.barData)
        /\ NonIncreasing(call.charts.pieData)
        /\ PieOfNumericColumn =>
               \A i \in 1..Len(call.charts.pieData) :
                   Greater(call.charts.pieData[i].value, 0)
        /\ \A tab \in {"line", "pie", "scatter"} :
               TabEnabled(tab) <=> Len(PreparedData(tab)) > 0
        /\ TabEnabled("bar")

-----------------------------------------------------------------------------
(* Claims about the local heuristics, checked under SpecLocal *)

TypeListsDisjoint(dataTypes) ==
    /\ Range(dataTypes.numeric) \cap Range(dataTypes.categorical) = {}
    /\ Range(dataTypes.numeric) \cap Range(dataTypes.temporal) = {}
    /\ Range(dataTypes.categorical) \cap Range(dataTypes.temporal) = {}

\* C6: the numeric, categorical and temporal lists that detectDataTypes,
\* performAutomaticAnalysis and validateAndEnhanceAnalysis produce are
\* pairwise disjoint, for every record list.
C6_TypeListsDisjoint ==
    call.fn \in {"detectDataTypes", "performAutomaticAnalysis", "validateAndEnhanceAnalysis"}
        => TypeListsDisjoint(call.dataTypes)

\* the values of column that are not the empty string, by the row they are in
NonEmptyRows(column) == {i \in 1..Len(data) : Get(data[i], column) # Str("")}
\* those of them that parse as a number
NumericRows(column) == {i \in NonEmptyRows(column) : ~Number(Get(data[i], column)).nan}

\* C7: detectDataTypes lists a column as numeric exactly when, among the
\* values of the column that are not the empty string, those that parse as
\* a number are strictly more than 80% (5k > 4n); a column with exactly 80%,
\* or with no non-empty value, is not numeric.
C7_NumericThreshold ==
    call.fn = "detectDataTypes" =>
        \A column \in Range(Cols) :
            column \in Range(call.dataTypes.numeric)
            <=> /\ column \in Range(FirstKeys(data))
                /\ 5 * Cardinality(NumericRows(column))
                       > 4 * Cardinality(NonEmptyRows(column))

\* a column with exactly 4 numeric values among 5 was classified, and is not numeric
C7_Witness ==
    /\ call.fn = "detectDataTypes"
    /\ Cardinality(NonEmptyRows("c1")) = 5
    /\ Cardinality(NumericRows("c1")) = 4
    /\ "c1" \in Range(FirstKeys(data))
    /\ "c1" \notin Range(call.dataTypes.numeric)

\* the category the claim gives a record: 'Outros' when the value is empty or missing
ClaimedCategory(item, categoryCol) ==
    IF Get(item, categoryCol) \in {Str(""), Null, Undefined} THEN "Outros"
    ELSE String(Get(item, categoryCol))

RECURSIVE ClaimedSum(_, _, _, _)
\* the sum, over the first i records of category name, of the numeric value
\* of valueCol, a value that is no number counting as 0
ClaimedSum(i, name, categoryCol, valueCol) ==
    IF i = 0 THEN 0
    ELSE ClaimedSum(i - 1, name, categoryCol, valueCol)
         + (IF ClaimedCategory(data[i], categoryCol) = name
               /\ ~Number(Get(data[i], valueCol)).nan
            THEN Number(Get(data[i], valueCol)).n ELSE 0)

\* C9: with a categorical and a numeric column, the bar entries of
\* generateFallbackChartData are the per-category sums of the first numeric
\* column grouped by the first categorical column: the value of every entry
\* is the sum over the records of its category, names are pairwise distinct,
\* and the records whose category is empty or missing are under 'Outros'.
C9_BarIsPerCategorySums ==
    (/\ call.fn = "generateFallbackChartData"
     /\ Len(call.dataTypes.categorical) > 0
     /\ Len(call.dataTypes.numeric) > 0)
    => LET categoryCol == call.dataTypes.categorical[1]
           valueCol == call.dataTypes.numeric[1]
       IN  /\ \A i \in 1..Len(call.bar) :
                 call.bar[i].value
                     = ClaimedSum(Len(data), call.bar[i].name, categoryCol, valueCol)
           /\ \A i, j \in 1..Len(call.bar) :
                 i # j => call.bar[i].name # call.bar[j].name
           /\ \A r \in 1..Len(data) :
                 \E i \in 1..Len(call.bar) :
                     call.bar[i].name = ClaimedCategory(data[r], categoryCol)

\* the own cells of the record list
Cells == {c \in (1..Len(data)) \X Range(Cols) : c[2] \in DOMAIN data[c[1]]}

\* C10: countMissingValues returns the number of cells (row, own key) whose
\* value is the empty string, null or undefined: between 0 and the number of
\* cells, 0 for the empty list, a key absent from a row not being counted.
C10_CountsMissingCells ==
    call.fn = "countMissingValues" =>
        /\ call.n = Cardinality({c \in Cells :
                         data[c[1]][c[2]] \in {Str(""), Null, Undefined}})
        /\ call.n >= 0
        /\ call.n <= Cardinality(Cells)
        /\ (Len(data) = 0 => call.n = 0)

\* an empty string and a null were counted in a list where a row lacks a key
C10_Witness ==
    /\ call.fn = "countMissingValues"
    /\ call.n = 2
    /\ \E i \in 1..Len(data) : "c2" \notin DOMAIN data[i]
    /\ \E c \in Cells : data[c[1]][c[2]] = Null
    /\ \E c \in Cells : data[c[1]][c[2]] = Str("")
    /\ \E c \in Cells : ~IsMissing(data[c[1]][c[2]])

\* C21: for every record list, validateAndEnhanceAnalysis and
\* performAutomaticAnalysis produce the same numeric, categorical and
\* temporal lists and the same recommendedCharts, and both set
\* dataQuality.totalRows to the number of records.
C21_ValidateEqualsAutomatic ==
    /\ call.fn = "validateAndEnhanceAnalysis" =>
           /\ call.dataTypes = performAutomaticAnalysis(data, engine).dataTypes
           /\ call.recommendedCharts
                  = performAutomaticAnalysis(data, engine).recommendedCharts
           /\ call.n = Len(data)
    /\ call.fn = "performAutomaticAnalysis" =>
           /\ \A a \in ModelAnalyses \ {NullAnalysis} :
                  /\ call.dataTypes = validateAndEnhanceAnalysis(a, data, engine).dataTypes
                  /\ call.recommendedCharts
                         = validateAndEnhanceAnalysis(a, data, engine).recommendedCharts
           /\ call.n = Len(data)

\* validateAndEnhanceAnalysis was given two records with a column where a
\* value parses as a date and another is no number, and a column of numbers
C21_Witness ==
    /\ call.fn = "validateAndEnhanceAnalysis"
    /\ call.n = 2
    /\ call.dataTypes.temporal = <<"c1", "c2">>
    /\ call.dataTypes.numeric = <<"c2">>
    /\ call.dataTypes.categorical = <<>>
    /\ \E i \in 1..Len(data) : ~DateParses(Get(data[i], "c1"), engine)
    /\ Len(call.recommendedCharts) > 0

\* the rows whose non-empty value of column parses as a date
DateRows(column) == {i \in NonEmptyRows(column) : DateParses(Get(data[i], column), engine)}

\* the lists of dataTypes that hold column
ListsHolding(dataTypes, column) ==
    {l \in {"numeric", "categorical", "temporal"} : column \in Range(dataTypes[l])}

\* C22: detectDataTypes puts every key of the first record in exactly one
\* of the three lists, numeric (more than 80% numbers) before temporal (more
\* than 80% dates), everything else categorical, and returns three empty
\* lists for an empty record list; the lists of detectDataTypes,
\* performAutomaticAnalysis and validateAndEnhanceAnalysis cover the keys of
\* the first record and hold no other name.
C22_TypesCoverFirstRecord ==
    /\ call.fn = "detectDataTypes" =>
           /\ \A column \in Range(FirstKeys(data)) :
                  ListsHolding(call.dataTypes, column)
                      = {IF 5 * Cardinality(NumericRows(column))
                               > 4 * Cardinality(NonEmptyRows(column))
                         THEN "numeric"
                         ELSE IF 5 * Cardinality(DateRows(column))
                                    > 4 * Cardinality(NonEmptyRows(column))
                         THEN "temporal"
                         ELSE "categorical"}
           /\ \A l \in {"numeric", "categorical", "temporal"} :
                  \A i, j \in 1..Len(call.dataTypes[l]) :
                      i # j => call.dataTypes[l][i] # call.dataTypes[l][j]
           /\ Len(data) = 0 => call.dataTypes = NullAnalysis.dataTypes
    /\ call.fn \in {"detectDataTypes", "performAutomaticAnalysis",
                    "validateAndEnhanceAnalysis"} =>
           \A column \in Range(Cols) :
               ListsHolding(call.dataTypes, column) # {}
                   <=> column \in Range(FirstKeys(data))

\* detectDataTypes listed as numeric a column whose values all parse both
\* as numbers and as dates, and as temporal a column of dates
C22_Witness ==
    /\ call.fn = "detectDataTypes"
    /\ Len(data) = 2
    /\ call.dataTypes.numeric = <<"c1">>
    /\ call.dataTypes.temporal = <<"c2">>
    /\ Cardinality(DateRows("c1")) = 2

\* the records of the list that repeat an earlier record: same keys, each
\* with the same value of the same type
Repeats == {i \in 1..Len(data) : \E j \in 1..(i - 1) : data[j] = data[i]}

\* C25: findDuplicates returns the number of records minus the number of
\* distinct records, two records being the same when their JSON
\* serialisations are equal; the first occurrence of a record is not
\* counted, and the result is 0 for an empty list.
C25_DuplicatesCount ==
    call.fn = "findDuplicates" =>
        /\ call.n = Len(data) - Cardinality(Range(data))
        /\ call.n = Cardinality(Repeats)
        /\ Len(data) = 0 => call.n = 0

\* a record that occurs three times was counted twice, among other records
C25_Witness ==
    /\ call.fn = "findDuplicates"
    /\ call.n = 2
    /\ Len(data) = 5
    /\ Cardinality(Range(data)) = 3
    /\ \E i, j, k \in 1..Len(data) :
           i < j /\ j < k /\ data[i] = data[j] /\ data[j] = data[k]

\* the chart types of the recommendations returned
RecommendedTypes == {call.recommendedCharts[i].type : i \in 1..Len(call.recommendedCharts)}

\* C27: generateChartRecommendations (and generateEnhancedChartRecommendations,
\* called by performAutomaticAnalysis and validateAndEnhanceAnalysis)
\* returns at most one recommendation per chart type, in an order of
\* non-increasing confidence, with 'bar' exactly when there is a categorical
\* and a numeric column, 'line' exactly when there is a temporal and a
\* numeric column, 'pie' exactly when there is a categorical column, and
\* 'scatter' exactly when there are at least two numeric columns.
C27_ChartRecommendations ==
    call.fn \in {"generateChartRecommendations", "performAutomaticAnalysis",
                 "validateAndEnhanceAnalysis"} =>
        /\ \A i, j \in 1..Len(call.recommendedCharts) :
               i # j => call.recommendedCharts[i].type # call.recommendedCharts[j].type
        /\ \A i \in 1..(Len(call.recommendedCharts) - 1) :
               call.recommendedCharts[i].confidence
                   >= call.recommendedCharts[i + 1].confidence
        /\ RecommendedTypes \subseteq {"bar", "line", "pie", "scatter"}
        /\ "bar" \in RecommendedTypes
               <=> Len(call.dataTypes.categorical) > 0 /\ Len(call.dataTypes.numeric) > 0
        /\ "line" \in RecommendedTypes
               <=> Len(call.dataTypes.temporal) > 0 /\ Len(call.dataTypes.numeric) > 0
        /\ "pie" \in RecommendedTypes <=> Len(call.dataTypes.categorical) > 0
        /\ "scatter" \in RecommendedTypes <=> Len(call.dataTypes.numeric) >= 2

\* a name, a number and a date column: bar was pushed before line and line
\* was returned before bar
C27_Witness ==
    /\ call.fn = "generateChartRecommendations"
    /\ call.dataTypes = [numeric |-> <<"c2">>, categorical |-> <<"c1">>,
                          temporal |-> <<"c3">>]
    /\ Len(call.recommendedCharts) = 3
    /\ call.recommendedCharts[1].type = "line"
    /\ call.recommendedCharts[2].type = "bar"
    /\ call.recommendedCharts[3].type = "pie"

\* the heuristics of utils/dataProcessor.ts and the fallback aggregation
PureHeuristics ==
    {"detectDataTypes", "countMissingValues", "findDuplicates", "cleanData",
     "generateFallbackChartData"}

-----------------------------------------------------------------------------
(* Claims about the request chain, checked under Spec *)

\* the static or locally computed default of stage is what the run holds for it
HoldsDefault(stage) ==
    CASE stage = "clean" -> cleanedData = data
      [] stage = "analyze" ->
             [analysis EXCEPT !.chartData = NoChartData]
                 = performAutomaticAnalysis(cleanedData, engine)
      [] stage = "chartData" ->
             \E sorted \in SortOutcomes(FallbackEntries(cleanedData, analysis.dataTypes)) :
                 chartData = generateFallbackChartData(cleanedData, analysis.dataTypes,
                                                       sorted)
      [] stage = "summary" -> summary = NoSummary
      [] stage = "reports" -> chartDescriptions = generateFallbackReports

\* C1: with a non-empty API key, whichever stage fails and however (network
\* error, non-2xx response, missing text, unparsable JSON), the call does not
\* reject: the failing stage yields its default, the remaining stages run and
\* the call resolves with cleanedData, analysis, summary and chartDescriptions.
C1_EveryFailureFallsBack ==
    /\ result.status = "rejected" => result.cause \notin FailureKinds
    /\ result.status = "resolved" =>
           /\ requests = StageOrder
           /\ settled = StageOrder
           /\ \A stage \in failed : HoldsDefault(stage)

IsPrefix(s, t) == Len(s) <= Len(t) /\ \A i \in 1..Len(s) : s[i] = t[i]

\* C2: within one run the requests are issued in the order clean, analyze,
\* chart data, summary, reports, and the request of a stage is issued only
\* after the previous stage has settled.
C2_RequestsInOrder ==
    /\ IsPrefix(requests, StageOrder)
    /\ IsPrefix(settled, requests)
    /\ \A i \in 2..Len(requests) : requests[i - 1] \in Range(settled)

\* all five requests of a run were issued, one of them after a stage that failed
C2_Witness ==
    /\ requests = StageOrder
    /\ "analyze" \in failed
    /\ "analyze" \in Range(settled)
    /\ result.status = "resolved"

\* C3: no request is retried: in one run each stage issues at most one
\* request, whether it succeeds or fails, so a run issues at most five.
C3_NoRetry ==
    /\ \A stage \in Stages :
           Cardinality({i \in 1..Len(requests) : requests[i] = stage}) <= 1
    /\ Len(requests) <= 5

\* a run in which the request of every stage failed ended after five requests
C3_Witness ==
    /\ failed = Stages
    /\ Len(requests) = 5
    /\ result.status = "resolved"

\* C4: at most one request to the AI endpoint is outstanding at any moment:
\* the stages of a run do not overlap, and no second run starts from the
\* component while one is in flight (isAnalyzing is true).
C4_OneOutstanding ==
    /\ Len(inFlight) <= 1
    /\ Len(inFlight) = 1 => isAnalyzing /\ inFlight = <<pc>>
    /\ isAnalyzing => ~ENABLED analyzeData

\* a request of the second run started from the component is outstanding
C4_Witness ==
    /\ runs = 2
    /\ isAnalyzing
    /\ inFlight = <<"summary">>

\* the analyze request of the run did not fail and its reply gave column types
ModelGaveTypes ==
    /\ "analyze" \in Range(settled)
    /\ "analyze" \notin failed
    /\ ~modelAnalysis.isNull
    /\ "dataTypes" \in modelAnalysis.fields

\* C5: the locally computed column types and chart recommendations are in
\* the analysis analyzeData returns only when the request failed or its
\* reply did not parse; when the reply parses as JSON, the dataTypes and
\* recommendedCharts returned are the ones the model gave.
C5_ModelTypesReturned ==
    (ModelGaveTypes /\ impl.processor # "simplified") =>
        /\ analysis.dataTypes = modelAnalysis.dataTypes
        /\ analysis.recommendedCharts = modelAnalysis.recommendedCharts

\* C5, amended: in geminiApi.ts and the full GeminiDataProcessor the
\* dataTypes and recommendedCharts of every analysis analyzeData returns are
\* the locally computed ones, also when the reply of the model parses.
C5_LocalTypesReturned ==
    ("analyze" \in Range(settled) /\ impl.processor # "simplified") =>
        /\ analysis.dataTypes = AutomaticTypes(cleanedData, engine)
        /\ analysis.recommendedCharts
               = generateEnhancedChartRecommendations(AutomaticTypes(cleanedData, engine))

\* a reply that parsed gave column types, and the analysis returned holds other ones
C5_Witness ==
    /\ ModelGaveTypes
    /\ impl.processor # "simplified"
    /\ Len(cleanedData) > 0
    /\ analysis.dataTypes # modelAnalysis.dataTypes
    /\ analysis.recommendedCharts # modelAnalysis.recommendedCharts

\* C8: when the clean stage fails for any reason (network error, non-2xx
\* response, missing text, unparsable JSON), cleanData returns the original
\* record list, and the later stages operate on that list.
C8_CleanFailureKeepsInput ==
    "clean" \in failed =>
        /\ "clean" \in Range(settled)
        /\ cleanedData = data
        /\ result.status # "rejected" \/ result.stage # "clean"

\* C11: when the chart-report stage fails (request error, missing text or
\* unparsable JSON), generateDetailedChartReports returns the static fallback
\* object, whose bar, line, pie and scatter fields are all present and are
\* fixed non-empty strings.
C11_ReportsFailureGivesFallback ==
    /\ generateFallbackReports.fields = {"bar", "line", "pie", "scatter"}
    /\ \A f \in generateFallbackReports.fields : generateFallbackReports[f] # ""
    /\ "reports" \in failed =>
           /\ "reports" \in Range(settled)
           /\ chartDescriptions = generateFallbackReports

\* C23: in the result of analyzeAndCleanDataWithGemini,
\* analysis.dataQuality.totalRows equals the number of records in
\* cleanedData, whatever the model replied in the analyze stage.
C23_TotalRowsIsRecordCount ==
    result.status = "resolved" =>
        /\ page.cleanedData = cleanedData
        /\ page.analysis.dataQuality.totalRows = Len(page.cleanedData)

StepRank(step) ==
    CASE step = "upload" -> 1 [] step = "analysis" -> 2 [] step = "visualization" -> 3

\* C14: the page step in Index only moves forward, upload to analysis to
\* visualization: it never returns to an earlier step, it enters
\* 'visualization' only through handleAnalysisComplete after a run of the
\* analysis succeeded, and a failed run leaves the step at 'analysis' with
\* analysis, cleanedData, summary and chartDescriptions unchanged.
C14_StepOnlyForward ==
    [][/\ StepRank(page'.currentStep) >= StepRank(page.currentStep)
       /\ StepRank(page'.currentStep) <= StepRank(page.currentStep) + 1
       /\ (page'.currentStep = "visualization" /\ page.currentStep # "visualization") =>
              /\ result.status = "pending"
              /\ result'.status = "resolved"
              /\ page'.completions = page.completions + 1
       /\ (result.status = "pending" /\ result'.status = "rejected") =>
              /\ page' = page
              /\ page.currentStep = "analysis"]_vars

\* the page is at 'visualization' after a run that failed and one that succeeded
C14_Witness ==
    /\ page.currentStep = "visualization"
    /\ runs = 2
    /\ result.status = "resolved"

\* C15: every analysis run started in the component eventually ends with
\* isAnalyzing set back to false, both when analyzeAndCleanDataWithGemini
\* resolves and when it rejects, provided every outstanding request
\* eventually settles; onAnalysisComplete is called exactly once in a run
\* that succeeds and never in a run that fails.
C15_RunEnds ==
    /\ isAnalyzing ~> ~isAnalyzing
    /\ [](isAnalyzing <=> result.status = "pending")
    /\ [](page.completions = IF result.status = "resolved" THEN 1 ELSE 0)

\* a run that rejected and a run that resolved have both ended
C15_Witness ==
    /\ runs = 2
    /\ ~isAnalyzing
    /\ result.status = "resolved"
    /\ page.completions = 1

\* C16: with an empty API key no request is ever sent:
\* analyzeAndCleanDataWithGemini throws 'API Key do Gemini nao configurada'
\* before any stage runs, and the DataAnalysis component returns from
\* analyzeData without setting isAnalyzing and without calling the service.
C16_NoRequestWithoutKey ==
    /\ KeyPassed = "" =>
           /\ requests = <<>>
           /\ inFlight = <<>>
           /\ settled = <<>>
           /\ result.status \in {"resolved", "rejected"} =>
                  /\ result.status = "rejected"
                  /\ result.cause = KeyNotConfigured
    /\ (impl.component = "DataAnalysis.tsx" /\ apiKey = "") =>
           /\ ~isAnalyzing
           /\ runs = 0
           /\ result = NoResult

\* the service was called without a key and has thrown
C16_Witness ==
    /\ KeyPassed = ""
    /\ result.status = "rejected"
    /\ result.cause = KeyNotConfigured
    /\ requests = <<>>

\* C20: loading a dataset with zero records still moves Index to step
\* 'analysis', but in that state neither the upload panel nor the analysis
\* panel is rendered, so no further step transition is enabled; likewise
\* step 'visualization' renders nothing when the cleaned data returned by
\* the analysis is empty.
C20_EmptyDataRendersNothing ==
    /\ (page.currentStep # "upload" /\ Len(data) = 0) =>
           /\ page.currentStep = "analysis"
           /\ ~UploadPanelRendered
           /\ ~AnalysisPanelRendered
           /\ ~ENABLED handleDataLoaded
           /\ ~ENABLED analyzeData
           /\ ~ENABLED Next
    /\ (page.currentStep = "visualization" /\ Len(page.cleanedData) = 0) =>
           /\ ~UploadPanelRendered
           /\ ~AnalysisPanelRendered
           /\ ~VisualizationRendered
           /\ ~ENABLED Next

\* a run resolved with an empty cleaned list for a loaded list that was not empty
C20_Witness ==
    /\ page.currentStep = "visualization"
    /\ Len(page.cleanedData) = 0
    /\ Len(data) > 0

-----------------------------------------------------------------------------
(* SpecParse: parseJsonResponse applied to the reply texts of the model *)

\* the texts of at most MaxTextLen tokens
Tokens == {FENCE, LANG, NL, JSON, PROSE}
Texts == UNION {[1..k -> Tokens] : k \in 0..MaxTextLen}

\* the opening lines of a fenced block: with the json label or bare, the
\* text on the next line or on the same one
Fences == {<<FENCE, LANG, NL>>, <<FENCE, LANG>>, <<FENCE, NL>>, <<FENCE>>}

\* text inside the fenced block that fence opens
Fenced(fence, text) ==
    fence \o text \o (IF fence[Len(fence)] = NL THEN <<NL, FENCE>> ELSE <<FENCE>>)

InitParse ==
    /\ impl = [service |-> "gemini/index.ts", processor |-> "simplified", client |-> "v2",
               component |-> "DataAnalysis.tsx"]
    /\ engine = "strict"
    /\ apiKey = ""
    /\ data = <<>>
    /\ page = InitialPage
    /\ isAnalyzing = FALSE
    /\ pc = "idle"
    /\ inFlight = <<>>
    /\ requests = <<>>
    /\ settled = <<>>
    /\ failed = {}
    /\ failure = NoFailure
    /\ cleanedData = <<>>
    /\ analysis = NullAnalysis
    /\ modelAnalysis = NullAnalysis
    /\ chartData = NoChartData
    /\ summary = <<>>
    /\ chartDescriptions = NoReports
    /\ result = NoResult
    /\ runs = 0
    /\ call = NoCall
    /\ keyInput = NoKeyInput

\* parseJsonResponse(text) and parseJsonResponse of the same text in a fence
CallParseJsonResponse ==
    /\ call = NoCall
    /\ \E client \in {"v1", "v2"}, text \in Texts, fence \in Fences :
        call' = [NoCall EXCEPT
                    !.fn = "parseJsonResponse", !.client = client, !.text = text,
                    !.fence = fence,
                    !.plain = parseJsonResponse(text, "value", client),
                    !.fenced = parseJsonResponse(Fenced(fence, text), "value", client)]
    /\ UNCHANGED localFrame

NextParse == CallParseJsonResponse

SpecParse == InitParse /\ [][NextParse]_vars

\* t is the text of one JSON value, with white space around it or none
IsJsonText(t) == SelectSeq(t, LAMBDA x : x # NL) = <<JSON>>

RECURSIVE WithoutFences(_)
\* t without its fence marks: the backquotes and a json label after them
WithoutFences(t) ==
    IF Len(t) = 0 THEN <<>>
    ELSE IF t[1] = FENCE /\ Len(t) >= 2 /\ t[2] = LANG
         THEN WithoutFences(SubSeq(t, 3, Len(t)))
    ELSE IF t[1] = FENCE THEN WithoutFences(Tail(t))
    ELSE <<t[1]>> \o WithoutFences(Tail(t))

\* C12: parseJsonResponse is insensitive to markdown fences: for every JSON
\* text t, parsing t wrapped in a json fence (or, in the second client, in a
\* bare fence) gives the same value as parsing t itself, and a text that is
\* not JSON after the fences are removed makes it throw 'Erro ao fazer parse
\* da resposta JSON'.
C12_FencesIgnored ==
    call.fn = "parseJsonResponse" =>
        /\ (IsJsonText(call.text) /\ (LANG \in Range(call.fence) \/ call.client = "v2")) =>
               /\ call.plain = Returned("value")
               /\ call.fenced = call.plain
        /\ ~IsJsonText(WithoutFences(call.text)) =>
               call.plain = Thrown("Erro ao fazer parse da resposta JSON")
        /\ ~IsJsonText(WithoutFences(Fenced(call.fence, call.text))) =>
               call.fenced = Thrown("Erro ao fazer parse da resposta JSON")

\* the second client parsed a JSON text with white space around it, bare and
\* inside a bare fence
C12_Witness ==
    /\ call.fn = "parseJsonResponse"
    /\ call.client = "v2"
    /\ call.text = <<NL, JSON, NL>>
    /\ call.fence = <<FENCE, NL>>
    /\ call.fenced = Returned("value")

-----------------------------------------------------------------------------
(* SpecKey: ApiKeyInput, local storage and the key its parent holds *)

\* the key the component configures by itself
defaultApiKey == "AIzaDefault"

\* the values typed into the input
KeyTexts == {"", "  ", "xyz", " AIzaK", "AIza", "AIzaK", "AIzaOther", defaultApiKey}
InvalidKeyTexts == {"", "  ", "xyz", " AIzaK"}

\* apiKey.startsWith('AIza')
StartsWithAIza(str) == str \in {"AIza", "AIzaK", "AIzaOther", "AIzaOld", defaultApiKey}

\* local storage holds no item or the key of an earlier visit; the variable
\* apiKey is the key of the parent, the one last passed to onApiKeySet
InitKey ==
    /\ impl = [service |-> "geminiApi.ts", processor |-> "inline", client |-> "v1",
               component |-> "DataAnalysis.tsx"]
    /\ engine = "strict"
    /\ apiKey = ""
    /\ data = <<>>
    /\ page = InitialPage
    /\ isAnalyzing = FALSE
    /\ pc = "idle"
    /\ inFlight = <<>>
    /\ requests = <<>>
    /\ settled = <<>>
    /\ failed = {}
    /\ failure = NoFailure
    /\ cleanedData = <<>>
    /\ analysis = NullAnalysis
    /\ modelAnalysis = NullAnalysis
    /\ chartData = NoChartData
    /\ summary = <<>>
    /\ chartDescriptions = NoReports
    /\ result = NoResult
    /\ runs = 0
    /\ call = NoCall
    /\ keyInput \in {[NoKeyInput EXCEPT !.stored = item] : item \in {Missing, "AIzaOld"}}

\* what ApiKeyInput leaves unchanged
keyFrame == <<impl, engine, data, page, isAnalyzing, pc, inFlight, requests, settled,
              failed, failure, cleanedData, analysis, modelAnalysis, chartData,
              summary, chartDescriptions, result, runs, call>>

\* ApiKeyInput is rendered for the first time: useState
Mount ==
    /\ ~keyInput.mounted
    /\ keyInput' = [keyInput EXCEPT !.mounted = TRUE, !.apiKey = defaultApiKey,
                                    !.isConfigured = FALSE]
    /\ UNCHANGED apiKey
    /\ UNCHANGED keyFrame

\* the effect of ApiKeyInput: after the mount, and again after every render
\* in which the parent passes an onApiKeySet of another identity
MountEffect ==
    /\ keyInput.mounted
    /\ keyInput' = [keyInput EXCEPT !.effectRan = TRUE, !.stored = defaultApiKey,
                                    !.isConfigured = TRUE]
    /\ apiKey' = defaultApiKey
    /\ UNCHANGED keyFrame

\* onChange of the input, which is rendered while isConfigured is false
ChangeInput ==
    /\ keyInput.mounted
    /\ keyInput.effectRan
    /\ ~keyInput.isConfigured
    /\ \E text \in KeyTexts : keyInput' = [keyInput EXCEPT !.apiKey = text]
    /\ UNCHANGED apiKey
    /\ UNCHANGED keyFrame

\* onClick of the button that shows or hides the text of the input
ToggleShowApiKey ==
    /\ keyInput.mounted
    /\ keyInput.effectRan
    /\ ~keyInput.isConfigured
    /\ keyInput' = [keyInput EXCEPT !.showApiKey = ~keyInput.showApiKey]
    /\ UNCHANGED apiKey
    /\ UNCHANGED keyFrame

\* a handleSaveApiKey that stores whatever the input holds
handleSaveApiKeyUnchecked ==
    /\ keyInput.mounted
    /\ keyInput.effectRan
    /\ ~keyInput.isConfigured
    /\ keyInput' = [keyInput EXCEPT !.stored = keyInput.apiKey,
                                    !.saved = keyInput.apiKey,
                                    !.isConfigured = TRUE,
                                    !.toast = "API Key configurada!"]
    /\ apiKey' = keyInput.apiKey
    /\ UNCHANGED keyFrame

\* handleSaveApiKey, on a click of the button rendered while isConfigured is false
handleSaveApiKey ==
    /\ keyInput.mounted
    /\ keyInput.effectRan
    /\ ~keyInput.isConfigured
    /\ IF StringTrim(keyInput.apiKey) = ""
       THEN /\ keyInput' = [keyInput EXCEPT !.toast = "Erro"]
            /\ UNCHANGED apiKey
       ELSE IF ~StartsWithAIza(keyInput.apiKey)
       THEN /\ keyInput' = [keyInput EXCEPT !.toast = "Atencao"]
            /\ UNCHANGED apiKey
       ELSE /\ keyInput' = [keyInput EXCEPT !.stored = keyInput.apiKey,
                                            !.saved = keyInput.apiKey,
                                            !.isConfigured = TRUE,
                                            !.toast = "API Key configurada!"]
            /\ apiKey' = keyInput.apiKey
    /\ UNCHANGED keyFrame

\* a handleClearApiKey that leaves the item in local storage
handleClearApiKeyKeepsItem ==
    /\ keyInput.mounted
    /\ keyInput.isConfigured
    /\ keyInput' = [keyInput EXCEPT !.saved = Missing, !.apiKey = "",
                                    !.isConfigured = FALSE,
                                    !.toast = "API Key removida"]
    /\ apiKey' = ""
    /\ UNCHANGED keyFrame

\* handleClearApiKey, on a click of the button rendered while isConfigured is true
handleClearApiKey ==
    /\ keyInput.mounted
    /\ keyInput.isConfigured
    /\ keyInput' = [keyInput EXCEPT !.stored = Missing, !.saved = Missing,
                                    !.apiKey = "", !.isConfigured = FALSE,
                                    !.toast = "API Key removida"]
    /\ apiKey' = ""
    /\ UNCHANGED keyFrame

NextKey ==
    \/ Mount
    \/ MountEffect
    \/ ChangeInput
    \/ ToggleShowApiKey
    \/ handleSaveApiKey
    \/ handleClearApiKey

SpecKey == InitKey /\ [][NextKey]_vars

\* C17: after handleSaveApiKey stores a valid key K, the key held in local
\* storage under 'gemini_api_key' and the key last passed to onApiKeySet stay
\* K until the user saves another key or clears it; no other event (in
\* particular a re-run of the mount effect when onApiKeySet changes
\* identity) replaces it.
C17_SavedKeyStays ==
    keyInput.saved # Missing =>
        /\ keyInput.stored = keyInput.saved
        /\ apiKey = keyInput.saved

\* C18: handleSaveApiKey rejects a key that is empty or whitespace-only, or
\* that does not start with 'AIza': in that case local storage, isConfigured
\* and the key of the parent are left unchanged; only a key that passes both
\* checks is stored.
C18_InvalidKeyRejected ==
    [][handleSaveApiKey =>
          IF keyInput.apiKey \in InvalidKeyTexts
          THEN /\ keyInput'.stored = keyInput.stored
               /\ keyInput'.isConfigured = keyInput.isConfigured
               /\ apiKey' = apiKey
               /\ keyInput'.toast \in {"Erro", "Atencao"}
          ELSE /\ keyInput'.stored = keyInput.apiKey
               /\ keyInput'.isConfigured
               /\ apiKey' = keyInput.apiKey]_vars

\* a key that does not start with 'AIza' was refused after a key was cleared
C18_Witness ==
    /\ keyInput.toast = "Atencao"
    /\ keyInput.apiKey = " AIzaK"
    /\ keyInput.stored = Missing
    /\ ~keyInput.isConfigured

\* C19: in ApiKeyInput, after the mount effect has run, isConfigured is true
\* exactly when local storage holds a value under 'gemini_api_key', and that
\* stored value equals the key last passed to onApiKeySet; this holds after
\* any sequence of save and clear actions.
C19_ConfiguredIffStored ==
    keyInput.effectRan =>
        /\ keyInput.isConfigured <=> keyInput.stored # Missing
        /\ keyInput.stored # Missing => keyInput.stored = apiKey

\* a key was saved after another one had been cleared
C19_Witness ==
    /\ keyInput.effectRan
    /\ keyInput.isConfigured
    /\ keyInput.stored = "AIzaOther"
    /\ apiKey = "AIzaOther"
    /\ keyInput.saved = "AIzaOther"

=============================================================================
